---- MODULE Spec2Model ----
(***************************************************************************)
(* Model of the Model Provider Abstraction & Streaming Response Engine:    *)
(* QueryService.stream_generate (services/query_service.py) and the model  *)
(* identity / config resolver (api/models/kb_model_config.py).             *)
(*                                                                         *)
(* A model reference is a string; Char(s, k) is its k-th character.  The   *)
(* generated text is a sequence of code points.  A JSON/Python value whose *)
(* type the code does not control is a tagged record [t |-> type, v |-> _].*)
(***************************************************************************)
EXTENDS Integers, Sequences, FiniteSets, TLC

\* ------------------------------------------------------------------ bounds
\* longest generated text, in chunks
MaxChunks == 3
\* most citations in one retrieval response
MaxCitations == 2

\* ------------------------------------------------------- program constants
chunk_size == 100

\* ------------------------------------------------------------ Python values
PyNone == [t |-> "none", v |-> 0]
PyInt(n) == [t |-> "int", v |-> n]
\* a str that is not a number, such as "abc"
PyStr == [t |-> "str", v |-> 0]
\* a list
PyList(items) == [t |-> "list", items |-> items]

Min(a, b) == IF a <= b THEN a ELSE b

\* s[a:b] for 0 <= a <= b
PySlice(s, a, b) == SubSeq(s, a + 1, Min(b, Len(s)))

RECURSIVE SortedSeq(_)
\* sorted(list(S)) for a set S of integers
SortedSeq(S) ==
  IF S = {} THEN <<>>
  ELSE LET m == CHOOSE x \in S : \A y \in S : x <= y
       IN <<m>> \o SortedSeq(S \ {m})

\* sorted(s) for a list s of integers (duplicates kept)
PySorted(s) == SortSeq(s, LAMBDA a, b : a < b)

Range(s) == {s[k] : k \in DOMAIN s}

\* ------------------------------------------------------------------ inputs
\* the text of length n returned by a collaborator: code points 1..n, so
\* that every character is distinguishable from every other
Text(n) == [k \in 1..n |-> k]

TextLens == {n \in 0..(MaxChunks * chunk_size) : n % chunk_size \in {0, 1, 50}}

\* a citation of a retrieval response, flattened:
\*   span_start, span_end = generatedResponsePart.textResponsePart.span
\*                          .get("start") / .get("end")  (None when missing)
\*   pages = the x-amz-bedrock-kb-document-page-number of each retrieved
\*           reference, in order
Citation(s, e, p) == [span_start |-> s, span_end |-> e, pages |-> p]

\* spans with their page numbers: two citations share the span [0, 50)
WellFormedCitations ==
  { Citation(PyInt(0), PyInt(50), <<PyInt(2), PyInt(1)>>),
    Citation(PyInt(0), PyInt(50), <<PyInt(1)>>),
    Citation(PyInt(50), PyInt(100), <<PyInt(1)>>),
    Citation(PyInt(150), PyInt(200), <<PyInt(2), PyInt(1)>>),
    Citation(PyInt(50), PyInt(150), <<PyInt(4)>>) }

MalformedCitations ==
  { Citation(PyNone, PyNone, <<PyInt(3)>>),
    Citation(PyInt(150), PyStr, <<PyInt(3)>>),
    Citation(PyStr, PyInt(50), <<PyInt(3)>>) }

CitationPool == WellFormedCitations \cup MalformedCitations

CitationLists == UNION {[1..k -> CitationPool] : k \in 0..MaxCitations}

\* where the response carries its citations
CitationLocations == {"top", "nested"}

\* "both": the top-level key is present with an empty list and the
\* citations are in the nested envelope
KBResponse(text, cs, loc) ==
  IF loc = "top"
  THEN [output |-> [text |-> text], citations |-> cs]
  ELSE IF loc = "nested"
  THEN [output |-> [text |-> text],
        retrieveAndGenerateResponse |-> [citations |-> cs]]
  ELSE [output |-> [text |-> text], citations |-> <<>>,
        retrieveAndGenerateResponse |-> [citations |-> cs]]

KBResponses ==
  {KBResponse(Text(n), cs, loc) :
     n \in TextLens, cs \in CitationLists, loc \in CitationLocations}

\* citations as the retrieval service may send them: a span that is missing,
\* not a number, reversed, or outside a short text; a page number int()
\* rejects; a reference without metadata or page number (PyNone)
AnomalousCitations ==
  { Citation(PyInt(0), PyInt(50), <<PyInt(1)>>),
    Citation(PyInt(50), PyInt(150), <<PyInt(2)>>),
    Citation(PyNone, PyNone, <<PyInt(3)>>),
    Citation(PyInt(150), PyStr, <<PyInt(3)>>),
    Citation(PyStr, PyInt(50), <<PyInt(3)>>),
    Citation(PyInt(0), PyInt(50), <<PyStr, PyInt(5)>>),
    Citation(PyInt(0), PyInt(50), <<PyNone>>),
    Citation(PyInt(80), PyInt(20), <<PyInt(6)>>),
    Citation(PyInt(0 - 10), PyInt(20), <<PyInt(7)>>) }

AnomalousLists == UNION {[1..k -> AnomalousCitations] : k \in 0..MaxCitations}

AnomalousTextLens == {50, chunk_size, (MaxChunks - 1) * chunk_size + 50}

AnomalousKBOutcomes ==
  {[kind |-> "raise"]} \cup
  {[kind |-> "kb", body |-> KBResponse(Text(n), cs, loc)] :
     n \in AnomalousTextLens, cs \in AnomalousLists,
     loc \in {"top", "nested", "both"}}

\* ----------------------------------------------------------------- strings
Char(s, k) == SubSeq(s, k, k)

LowerLetters ==
  {"a", "b", "c", "d", "e", "f", "g", "h", "i", "j", "k", "l", "m",
   "n", "o", "p", "q", "r", "s", "t", "u", "v", "w", "x", "y", "z"}
UpperLetters ==
  {"A", "B", "C", "D", "E", "F", "G", "H", "I", "J", "K", "L", "M",
   "N", "O", "P", "Q", "R", "S", "T", "U", "V", "W", "X", "Y", "Z"}
DigitChars == {"0", "1", "2", "3", "4", "5", "6", "7", "8", "9"}

LowerOf ==
  [c \in UpperLetters |->
     CASE c = "A" -> "a" [] c = "B" -> "b" [] c = "C" -> "c" [] c = "D" -> "d"
       [] c = "E" -> "e" [] c = "F" -> "f" [] c = "G" -> "g" [] c = "H" -> "h"
       [] c = "I" -> "i" [] c = "J" -> "j" [] c = "K" -> "k" [] c = "L" -> "l"
       [] c = "M" -> "m" [] c = "N" -> "n" [] c = "O" -> "o" [] c = "P" -> "p"
       [] c = "Q" -> "q" [] c = "R" -> "r" [] c = "S" -> "s" [] c = "T" -> "t"
       [] c = "U" -> "u" [] c = "V" -> "v" [] c = "W" -> "w" [] c = "X" -> "x"
       [] c = "Y" -> "y" [] c = "Z" -> "z"]

RECURSIVE lower(_)
\* str.lower()
lower(s) ==
  IF s = "" THEN ""
  ELSE (IF Head(s) \in UpperLetters THEN LowerOf[Head(s)] ELSE Head(s))
       \o lower(Tail(s))

RECURSIVE replace(_, _, _)
\* str.replace(old, new) for a one-character old
replace(s, old, new) ==
  IF s = "" THEN ""
  ELSE (IF Head(s) = old THEN new ELSE Head(s)) \o replace(Tail(s), old, new)

\* ---------------------------------------------------- regular expressions
\* a pattern is a sequence of atoms
\* literal text
Lit(s) == [k |-> "lit", s |-> s]
\* \d{lo,hi}
Digits(lo, hi) == [k |-> "digits", lo |-> lo, hi |-> hi]
\* \d+
DigitsPlus == [k |-> "digits+"]
\* (?:p)?
Opt(p) == [k |-> "opt", p |-> p]
\* (?!p)
NotAhead(p) == [k |-> "not", p |-> p]

AllDigits(s, from, to) == \A j \in from..to : Char(s, j) \in DigitChars

RECURSIVE MatchEnds(_, _, _, _)
\* the offsets q at which a match of pat[idx..] that starts at offset pos of s
\* can end (offsets count the characters before the position)
MatchEnds(pat, idx, s, pos) ==
  IF idx > Len(pat) THEN {pos}
  ELSE
    LET a == pat[idx]
        DigitEnds(lo, hi) ==
          {q \in (pos + lo)..Min(pos + hi, Len(s)) : AllDigits(s, pos + 1, q)}
    IN CASE a.k = "lit" ->
              IF /\ pos + Len(a.s) <= Len(s)
                 /\ SubSeq(s, pos + 1, pos + Len(a.s)) = a.s
              THEN MatchEnds(pat, idx + 1, s, pos + Len(a.s))
              ELSE {}
         [] a.k = "digits" ->
              UNION {MatchEnds(pat, idx + 1, s, q) : q \in DigitEnds(a.lo, a.hi)}
         [] a.k = "digits+" ->
              UNION {MatchEnds(pat, idx + 1, s, q) : q \in DigitEnds(1, Len(s))}
         [] a.k = "opt" ->
              UNION {MatchEnds(pat, idx + 1, s, q) :
                       q \in {pos} \cup MatchEnds(a.p, 1, s, pos)}
         [] a.k = "not" ->
              IF MatchEnds(a.p, 1, s, pos) = {}
              THEN MatchEnds(pat, idx + 1, s, pos)
              ELSE {}

\* re.search(pat, s) finds a match
re_search(pat, s) == \E pos \in 0..Len(s) : MatchEnds(pat, 1, s, pos) # {}

\* -------------------------------------------------------- ModelProvider
\* the enumeration's members, by value
ModelProvider ==
  [amazon |-> "AMAZON", anthropic |-> "ANTHROPIC", cohere |-> "COHERE",
   meta |-> "META", mistral |-> "MISTRAL", stability |-> "STABILITY",
   ai21 |-> "AI21", unknown |-> "UNKNOWN"]

\* ------------------------------------------------------- ModelIdentifier
Marker == "foundation-model/"

\* [a-zA-Z0-9\-\.]
NameChars == LowerLetters \cup UpperLetters \cup DigitChars \cup {"-", "."}

\* offsets at which the text "foundation-model/" ends in s
MarkerEnds(s) ==
  {b \in Len(Marker)..Len(s) : SubSeq(s, b - Len(Marker) + 1, b) = Marker}

\* re.match(r"(.+?:\d+):(\d+[kKmM]?)$", original_arn): "$" matches at the
\* end of the string and just before a newline that ends the string
DollarAt(arn) ==
  IF Len(arn) > 0 /\ Char(arn, Len(arn)) = "\n" THEN Len(arn) - 1 ELSE Len(arn)

Colons(arn) == {j \in 1..Len(arn) : Char(arn, j) = ":"}

\* the pairs <<a, b>> of the positions of the two colons of a match: group 1
\* is arn[1..b-1] = (.+?) ":" digits, group 2 is arn[b+1..DollarAt(arn)];
\* "." matches any character but the newline
ArnSplits(arn) ==
  {ab \in Colons(arn) \X Colons(arn) :
     LET a == ab[1]
         b == ab[2]
         e == DollarAt(arn)
     IN /\ a >= 2
        /\ \A j \in 1..(a - 1) : Char(arn, j) # "\n"
        /\ b - a >= 2
        /\ AllDigits(arn, a + 1, b - 1)
        /\ \/ e >= b + 1 /\ AllDigits(arn, b + 1, e)
           \/ /\ e >= b + 2
              /\ AllDigits(arn, b + 1, e - 1)
              /\ Char(arn, e) \in {"k", "K", "m", "M"}}

\* the pattern (.+?):(\d+[kKmM]?)$ : any reference that ends in a suffix
\* is split at its last colon
_parse_arn_last_colon(original_arn) ==
  LET e == DollarAt(original_arn)
      bs == {b \in Colons(original_arn) :
               /\ b >= 2
               /\ \A j \in 1..(b - 1) : Char(original_arn, j) # "\n"
               /\ \/ e >= b + 1 /\ AllDigits(original_arn, b + 1, e)
                  \/ /\ e >= b + 2
                     /\ AllDigits(original_arn, b + 1, e - 1)
                     /\ Char(original_arn, e) \in {"k", "K", "m", "M"}}
  IN IF bs # {}
     THEN LET b == CHOOSE x \in bs : TRUE
          IN <<SubSeq(original_arn, 1, b - 1), SubSeq(original_arn, b + 1, e)>>
     ELSE <<original_arn, "">>

_parse_arn(original_arn) ==
  IF ArnSplits(original_arn) # {}
  THEN LET ab == CHOOSE x \in ArnSplits(original_arn) : TRUE
       IN <<SubSeq(original_arn, 1, ab[2] - 1),
            SubSeq(original_arn, ab[2] + 1, DollarAt(original_arn))>>
  ELSE <<original_arn, "">>

\* re.search(r"foundation-model/([a-zA-Z0-9\-\.]+)", base_arn)
_extract_model_name(base_arn) ==
  LET starts == {b \in MarkerEnds(base_arn) :
                   b < Len(base_arn) /\ Char(base_arn, b + 1) \in NameChars}
  IN IF starts = {} THEN "unknown"
     ELSE LET b == CHOOSE x \in starts : \A y \in starts : x <= y
              e == CHOOSE q \in (b + 1)..Len(base_arn) :
                     /\ \A j \in (b + 1)..q : Char(base_arn, j) \in NameChars
                     /\ q = Len(base_arn) \/ Char(base_arn, q + 1) \notin NameChars
          IN SubSeq(base_arn, b + 1, e)

\* the value taken as it is, without the lookup in the enumeration
ModelProviderUnchecked(value) == [raised |-> FALSE, member |-> value]

\* ModelProvider(value): the member with that value, or ValueError
ModelProviderOf(value) ==
  IF value \in DOMAIN ModelProvider
  THEN [raised |-> FALSE, member |-> ModelProvider[value]]
  ELSE [raised |-> TRUE, member |-> "ValueError"]

\* the provider read before the first dot, marker or not
_determine_provider_anywhere(base_arn) ==
  LET dots == {d \in 2..Len(base_arn) : Char(base_arn, d) = "."}
  IN IF dots = {} THEN ModelProvider.unknown
     ELSE LET d == CHOOSE x \in dots : \A y \in dots : x <= y
              made == ModelProviderOf(lower(SubSeq(base_arn, 1, d - 1)))
          IN IF made.raised THEN ModelProvider.unknown ELSE made.member

\* re.search(r"foundation-model/([^\.]+)\.", base_arn)
_determine_provider(base_arn) ==
  LET starts == {b \in MarkerEnds(base_arn) :
                   /\ b < Len(base_arn)
                   /\ Char(base_arn, b + 1) # "."
                   /\ \E d \in (b + 2)..Len(base_arn) : Char(base_arn, d) = "."}
  IN IF starts = {} THEN ModelProvider.unknown
     ELSE LET b == CHOOSE x \in starts : \A y \in starts : x <= y
              d == CHOOSE x \in (b + 2)..Len(base_arn) :
                     /\ Char(base_arn, x) = "."
                     /\ \A j \in (b + 1)..(x - 1) : Char(base_arn, j) # "."
              made == ModelProviderOf(lower(SubSeq(base_arn, b + 1, d - 1)))
          IN IF made.raised THEN ModelProvider.unknown ELSE made.member

\* ModelIdentifier.__init__
ModelIdentifier(arn) ==
  LET parsed == _parse_arn(arn)
  IN [original_arn |-> arn,
      base_arn |-> parsed[1],
      token_count |-> parsed[2],
      model_name |-> _extract_model_name(parsed[1]),
      provider |-> _determine_provider(parsed[1])]

\* ----------------------------------------------------- ModelFamilyMapper
\* the (pattern, family) rules in declaration order
_FAMILY_PATTERNS == <<
  [pattern |-> <<Lit("titan-text-premier")>>, family |-> "titan-text-g1-premier"],
  [pattern |-> <<Lit("nova-pro")>>, family |-> "nova-pro"],
  [pattern |-> <<Lit("nova-lite")>>, family |-> "nova-lite"],
  [pattern |-> <<Lit("nova-micro")>>, family |-> "nova-micro"],
  \* titan-embed-text-v\d
  [pattern |-> <<Lit("titan-embed-text-v"), Digits(1, 1)>>,
   family |-> "titan-embed-text"],
  \* titan-embed-image-v\d
  [pattern |-> <<Lit("titan-embed-image-v"), Digits(1, 1)>>,
   family |-> "titan-embed-image"],
  \* claude-instant-v\d
  [pattern |-> <<Lit("claude-instant-v"), Digits(1, 1)>>,
   family |-> "claude-instant"],
  \* claude-v2(?::\d+)?
  [pattern |-> <<Lit("claude-v2"), Opt(<<Lit(":"), DigitsPlus>>)>>,
   family |-> "claude-v2"],
  \* claude-3-sonnet-\d{8}
  [pattern |-> <<Lit("claude-3-sonnet-"), Digits(8, 8)>>,
   family |-> "claude-3-sonnet"],
  \* claude-3-haiku-\d{8}
  [pattern |-> <<Lit("claude-3-haiku-"), Digits(8, 8)>>,
   family |-> "claude-3-haiku"],
  \* claude-3\.5-sonnet-\d{8}
  [pattern |-> <<Lit("claude-3.5-sonnet-"), Digits(8, 8)>>,
   family |-> "claude-3.5-sonnet"],
  \* claude-3-5-sonnet-\d{8}
  [pattern |-> <<Lit("claude-3-5-sonnet-"), Digits(8, 8)>>,
   family |-> "claude-3.5-sonnet"],
  [pattern |-> <<Lit("command-r-plus")>>, family |-> "command-r-plus"],
  \* command-r(?!-plus)
  [pattern |-> <<Lit("command-r"), NotAhead(<<Lit("-plus")>>)>>,
   family |-> "command-r"],
  [pattern |-> <<Lit("command-light")>>, family |-> "command-light"],
  [pattern |-> <<Lit("llama3-70b")>>, family |-> "llama-3-70b-instruct"],
  \* llama3-\d+b
  [pattern |-> <<Lit("llama3-"), DigitsPlus, Lit("b")>>,
   family |-> "llama-3-other"],
  \* mistral-large-\d{4}
  [pattern |-> <<Lit("mistral-large-"), Digits(4, 4)>>,
   family |-> "mistral-large"],
  \* mistral-small-\d{4}
  [pattern |-> <<Lit("mistral-small-"), Digits(4, 4)>>,
   family |-> "mistral-small"],
  [pattern |-> <<Lit("mixtral-8x7b")>>, family |-> "mixtral"]
>>

RECURSIVE get_family_from(_, _)
\* the for loop of get_family from rule r on: the first rule that matches
\* returns its family
get_family_from(normalized_name, r) ==
  IF r > Len(_FAMILY_PATTERNS) THEN "unknown"
  ELSE IF re_search(_FAMILY_PATTERNS[r].pattern, normalized_name)
       THEN _FAMILY_PATTERNS[r].family
       ELSE get_family_from(normalized_name, r + 1)

\* the loop without its return: the last rule that matches decides
get_family_last(model_name) ==
  LET normalized_name == replace(lower(model_name), "_", "-")
      hits == {r \in DOMAIN _FAMILY_PATTERNS :
                 re_search(_FAMILY_PATTERNS[r].pattern, normalized_name)}
  IN IF hits = {} THEN "unknown"
     ELSE _FAMILY_PATTERNS[CHOOSE r \in hits : \A q \in hits : q <= r].family

get_family(model_name) ==
  get_family_from(replace(lower(model_name), "_", "-"), 1)

\* -------------------------------------------------------- KBModelConfigs
\* Prices are in units of 10^-5 dollar per 1000 tokens, temperature and
\* top_p in thousandths.
KBModelPricing(input_cost, output_cost) ==
  [input_cost |-> input_cost, output_cost |-> output_cost]

GuardrailSettings ==
  [guardrailIdentifier |-> "e1xjb1vcaxah", guardrailVersion |-> "DRAFT"]

\* KBModelConfig.__init__ with every argument given
KBModelConfig(model_id, provider, max_tokens, temperature, top_p, top_k, stop_sequences, supports_query_decomposition, pricing, guardrails) ==
  [model_id |-> model_id,
   provider |-> provider,
   max_tokens |-> max_tokens,
   temperature |-> temperature,
   top_p |-> top_p,
   top_k |-> top_k,
   stop_sequences |-> IF stop_sequences = PyNone THEN PyList(<<>>) ELSE stop_sequences,
   supports_query_decomposition |-> supports_query_decomposition,
   pricing |-> pricing,
   guardrails |-> guardrails]

DEFAULT_CONFIG ==
  KBModelConfig("unknown", ModelProvider.unknown, 2048, 200, 999, 250, PyNone,
                FALSE, KBModelPricing(10, 30), GuardrailSettings)

_MODEL_PRICING ==
  [family \in {"titan-text-g1-premier", "nova-pro", "nova-lite", "nova-micro",
               "claude-instant", "claude-v2", "claude-3-sonnet",
               "claude-3-haiku", "claude-3.5-sonnet", "command-r",
               "command-r-plus", "llama-3-70b-instruct", "mistral-large",
               "mistral-small"} |->
     CASE family = "titan-text-g1-premier" -> KBModelPricing(80, 160)
       [] family = "nova-pro" -> KBModelPricing(125, 375)
       [] family = "nova-lite" -> KBModelPricing(30, 90)
       [] family = "nova-micro" -> KBModelPricing(10, 30)
       [] family = "claude-instant" -> KBModelPricing(80, 240)
       [] family = "claude-v2" -> KBModelPricing(800, 2400)
       [] family = "claude-3-sonnet" -> KBModelPricing(300, 900)
       [] family = "claude-3-haiku" -> KBModelPricing(25, 75)
       [] family = "claude-3.5-sonnet" -> KBModelPricing(300, 900)
       [] family = "command-r" -> KBModelPricing(15, 20)
       [] family = "command-r-plus" -> KBModelPricing(300, 600)
       [] family = "llama-3-70b-instruct" -> KBModelPricing(70, 90)
       [] family = "mistral-large" -> KBModelPricing(250, 750)
       [] family = "mistral-small" -> KBModelPricing(30, 90)]

\* dict.get(key, default)
DictGet(d, key, default) == IF key \in DOMAIN d THEN d[key] ELSE default

token_limits ==
  [family \in {"claude-3-sonnet", "claude-3-haiku", "claude-3.5-sonnet",
               "mistral-large", "mistral-small"} |->
     CASE family = "claude-3-sonnet" -> 200000
       [] family = "claude-3-haiku" -> 200000
       [] family = "claude-3.5-sonnet" -> 4096
       [] family = "mistral-large" -> 8192
       [] family = "mistral-small" -> 8192]

\* the limit of a family without an entry taken as 0
_get_max_tokens_zero(identifier) ==
  DictGet(token_limits, get_family(identifier.model_name), 0)

_get_max_tokens(identifier) ==
  DictGet(token_limits, get_family(identifier.model_name), DEFAULT_CONFIG.max_tokens)

decomposition_supported == {"claude-3-sonnet", "claude-3-haiku", "claude-3.5-sonnet"}

\* the model name looked up in place of its family
_supports_decomposition_by_name(identifier) ==
  identifier.model_name \in decomposition_supported

_supports_decomposition(identifier) ==
  get_family(identifier.model_name) \in decomposition_supported

\* None, for an Optional[str] argument
None == "<None>"

\* lines 238-254, the body of the try block: re.match raises TypeError for
\* an argument that is not a str; for a str no statement raises
get_config_body(arn) ==
  IF arn = None THEN [raised |-> TRUE]
  ELSE
    LET identifier == ModelIdentifier(arn)
        model_family == get_family(identifier.model_name)
        pricing == DictGet(_MODEL_PRICING, model_family, DEFAULT_CONFIG.pricing)
    IN [raised |-> FALSE,
        config |->
          KBModelConfig(identifier.model_name,
                        identifier.provider,
                        _get_max_tokens(identifier),
                        DEFAULT_CONFIG.temperature,
                        DEFAULT_CONFIG.top_p,
                        250,
                        PyNone,
                        _supports_decomposition(identifier),
                        pricing,
                        GuardrailSettings)]

\* KBModelConfigs.get_config: the value returned, with raised = TRUE if an
\* exception left the method; "except Exception" returns DEFAULT_CONFIG
get_config(arn) ==
  LET body == get_config_body(arn)
  IN IF body.raised THEN [raised |-> FALSE, config |-> DEFAULT_CONFIG]
     ELSE body

\* ------------------------------------------------------ model references
RefPrefixes == {"", Marker, "arn:aws:bedrock:us-east-1::" \o Marker}

RefProviders ==
  {"anthropic", "amazon", "cohere", "meta", "mistral", "ai21", "Anthropic", "foo"}

RefNames ==
  {"claude-3-sonnet-20240229-v1:0", "claude-3-5-sonnet-20240620-v1:0",
   "claude-3-haiku-2024", "claude-v2:1", "claude-v9",
   "command-r-plus-v1:0", "command-r-v1:0", "command-light-text-v14",
   "llama3-70b-instruct-v1:0", "llama3-8b-instruct-v1:0",
   "mistral-large-2402-v1:0", "nova-pro-v1:0", "nova-premier-v1:0",
   "titan-text-express-v1",
   "titan-text-premier-v1:0", "Titan_Text_Premier-v1:0"}

RefSuffixes == {"", ":200000", ":200k"}

\* the model references the resolver is applied to
References ==
  {pre \o prov \o "." \o name \o suf :
     pre \in RefPrefixes, prov \in RefProviders,
     name \in RefNames, suf \in RefSuffixes}
  \cup {"foo-bar", "", "foundation-model/", "foundation-model/unknown.x", None,
        "foundation-model/anthropic.claude-v2:1:200k\n",
        "foundation-model/anthropic.claude-v2\n:1:200k",
        "foundation-model/meta.llama3-8b:7:", ":1:2", "x:1:2", "x::2", "x:1:2kk",
        "Titan_Text_Premier", "command-r-x-command-r-plus"}

\* ---------------------------------------------------------------- requests
\* truth value of an Optional[str]
Truthy(x) == x # None /\ x # ""

KnowledgeBaseIds == {None, "", "KB1"}

\* the model_arn argument of a streamed request
StreamRefs ==
  {None, "foo-bar", "arn:aws:bedrock:us-east-1::foundation-model/meta.llama3-70b-instruct-v1:0"}

\* config.aws_config.model_arn with the MODEL_ID of config/settings.py
DEFAULT_MODEL_ARN ==
  "arn:aws:bedrock:us-east-1::foundation-model/anthropic.claude-3-sonnet-20240229-v1:0"

\* --------------------------------------------------- collaborator outcomes
\* the body of an invoke_model response: text_field is the field the
\* provider's extractor reads (content[0].text, generation, text, output,
\* results[0].outputText, outputs[0].text, completion), present or missing
LLMResponses ==
  {[text_field |-> Text(n)] : n \in TextLens} \cup {[other |-> 0]}

\* what a collaborator call does: raise, or return a response
KBOutcomes ==
  {[kind |-> "raise"]} \cup {[kind |-> "kb", body |-> b] : b \in KBResponses}
LLMOutcomes ==
  {[kind |-> "raise"]} \cup {[kind |-> "llm", body |-> b] : b \in LLMResponses}

\* ------------------------------------------- requests of the cost block
\* prompts of 0, 4 and 7 characters
Prompts == {"", "Why?", "Explain"}

CostRefs ==
  {None, "foo-bar",
   "arn:aws:bedrock:us-east-1::foundation-model/amazon.nova-pro-v1:0",
   "arn:aws:bedrock:us-east-1::foundation-model/amazon.titan-text-express-v1",
   "arn:aws:bedrock:us-east-1::foundation-model/cohere.command-r-v1:0",
   "arn:aws:bedrock:us-east-1::foundation-model/mistral.mistral-large-2402-v1:0",
   "arn:aws:bedrock:us-east-1::foundation-model/meta.llama3-70b-instruct-v1:0"}

CostTextLens == {0, 1, 50, chunk_size + 1, (MaxChunks - 1) * chunk_size + 50}

\* what a response says about its token usage, in the formats
\* get_token_usage reads; a count is a JSON integer, null or a string
UsageReports ==
  {[k \in {} |-> 0],
   [usage |-> [input_tokens |-> PyInt(12), output_tokens |-> PyInt(34)]],
   [usage |-> [input_tokens |-> PyInt(0), output_tokens |-> PyInt(-3)]],
   [usage |-> [input_tokens |-> PyInt(12), output_tokens |-> PyNone]],
   [usage |-> [input_tokens |-> PyStr, output_tokens |-> PyInt(34)]],
   [usage |-> [input_tokens |-> PyInt(1), output_tokens |-> PyInt(500)]],
   [usage |-> [input_tokens |-> PyInt(12)]],
   [usage |-> [inputTokens |-> PyInt(12), outputTokens |-> PyInt(34)]],
   [usage |-> [inputTokens |-> PyInt(0), outputTokens |-> PyNone]],
   [usage |-> [prompt_tokens |-> PyInt(12), completion_tokens |-> PyInt(34)]],
   [retrieveAndGenerateResponse |->
      [metrics |-> [promptTokenCount |-> PyInt(12), completionTokenCount |-> PyInt(0)]]],
   [responseMetadata |->
      [tokenUsage |-> [promptTokens |-> PyInt(-3), completionTokens |-> PyInt(34)]]],
   [meta |-> [billed_tokens |-> PyInt(10)]],
   [meta |-> [billed_tokens |-> PyInt(0)]],
   [meta |-> [billed_tokens |-> PyNone]],
   [meta |-> [billed_tokens |-> PyInt(10),
              tokens |-> [prompt_tokens |-> PyInt(3), completion_tokens |-> PyNone]]],
   [text |-> Text(50)],
   [input |-> [text |-> Text(8)]]}

CostKBOutcomes ==
  {[kind |-> "raise"]} \cup
  {[kind |-> "kb", body |-> KBResponse(Text(n), <<>>, "top") @@ report] :
     n \in CostTextLens, report \in UsageReports}
CostLLMOutcomes ==
  {[kind |-> "raise"], [kind |-> "llm", body |-> [k \in {} |-> 0]]} \cup
  {[kind |-> "llm", body |-> [text_field |-> Text(n)] @@ report] :
     n \in CostTextLens, report \in UsageReports}

\* the amounts format_cost is applied to on its own
FormatValues ==
  (0..160) \cup {12345649, 12345650, 12345651, 99999949, 99999950, 123456789}

\* ------------------------------------------------------ text extraction
\* "nova" in model_family
Contains(sub, s) ==
  \E pos \in 0..(Len(s) - Len(sub)) : SubSeq(s, pos + 1, pos + Len(sub)) = sub

\* the Amazon branch decided on the model name instead of its family
TextLocationByName(config) ==
  CASE config.provider = ModelProvider.anthropic -> "content[0].text"
    [] config.provider = ModelProvider.meta -> "generation"
    [] config.provider = ModelProvider.cohere -> "text"
    [] config.provider = ModelProvider.amazon ->
         IF Contains("nova", lower(config.model_id))
         THEN "output.message.content[0].text"
         ELSE "results[0].outputText"
    [] config.provider = ModelProvider.mistral -> "outputs[0].text"
    [] OTHER -> "completion"

\* kb_utils.py lines 107-127: where the provider's branch of
\* _extract_generated_text reads the generated text in the response body
TextLocation(config) ==
  CASE config.provider = ModelProvider.anthropic -> "content[0].text"
    [] config.provider = ModelProvider.meta -> "generation"
    [] config.provider = ModelProvider.cohere -> "text"
    [] config.provider = ModelProvider.amazon ->
         IF Contains("nova", get_family(config.model_id))
         THEN "output.message.content[0].text"
         ELSE "results[0].outputText"
    [] config.provider = ModelProvider.mistral -> "outputs[0].text"
    [] OTHER -> "completion"

\* KBUtils._extract_generated_text: the text, or raised (HTTPException 500).
\* text_field stands for the field at TextLocation(config).
\* A subscript of a missing field raises; .get(field, "") gives "".
_extract_generated_text(response_body, config) ==
  LET present == "text_field" \in DOMAIN response_body
      subscript == IF present
                   THEN [raised |-> FALSE, text |-> response_body.text_field]
                   ELSE [raised |-> TRUE]
      get == IF present
             THEN [raised |-> FALSE, text |-> response_body.text_field]
             ELSE [raised |-> FALSE, text |-> <<>>]
  IN CASE config.provider = ModelProvider.anthropic -> subscript
       [] config.provider = ModelProvider.meta -> get
       [] config.provider = ModelProvider.cohere -> get
       [] config.provider = ModelProvider.amazon ->
            IF Contains("nova", get_family(config.model_id)) THEN subscript ELSE get
       [] config.provider = ModelProvider.mistral -> get
       [] OTHER -> get

\* ------------------------------------------------------------ token usage
Max(a, b) == IF a >= b THEN a ELSE b

\* d.get(key, default) on a JSON object
Get(d, key, default) == IF key \in DOMAIN d THEN d[key] ELSE default

\* the empty JSON object
EmptyDict == [k \in {} |-> 0]

\* KBCostMetrics.estimate_tokens
estimate_tokens(text) ==
  IF Len(text) = 0 THEN 1 ELSE Max(1, Len(text) \div 4)

\* the counts stored as they are, without the max(1, ...)
SetInOutUnclamped(usage, vin, vout) ==
  IF vin.t # "int" THEN [raised |-> TRUE, usage |-> usage]
  ELSE LET first == [usage EXCEPT !.input_tokens = vin.v]
       IN IF vout.t # "int" THEN [raised |-> TRUE, usage |-> first]
          ELSE [raised |-> FALSE, usage |-> [first EXCEPT !.output_tokens = vout.v]]

\* usage["input_tokens"] = max(1, vin); usage["output_tokens"] = max(1, vout)
\* max(1, x) raises TypeError for an x that is not a number; an assignment
\* made before the exception stays
SetInOut(usage, vin, vout) ==
  IF vin.t # "int" THEN [raised |-> TRUE, usage |-> usage]
  ELSE LET first == [usage EXCEPT !.input_tokens = Max(1, vin.v)]
       IN IF vout.t # "int" THEN [raised |-> TRUE, usage |-> first]
          ELSE [raised |-> FALSE,
                usage |-> [first EXCEPT !.output_tokens = Max(1, vout.v)]]

\* line 133
MinimumUsage == [input_tokens |-> 1, output_tokens |-> 1, total_tokens |-> 2]

\* lines 153-234, the Amazon formats: left = TRUE if the function is left
\* there (by a return, or by an exception that line 310 turns into a return),
\* usage the dict at that point
AmazonFormats(response_body) ==
  LET rag == Get(response_body, "retrieveAndGenerateResponse", EmptyDict)
      metrics == Get(rag, "metrics", EmptyDict)
      usage_field == Get(response_body, "usage", EmptyDict)
      token_usage == Get(Get(response_body, "responseMetadata", EmptyDict),
                         "tokenUsage", EmptyDict)
      output == Get(response_body, "output", EmptyDict)
      Both(d, a, b) == a \in DOMAIN d /\ b \in DOMAIN d
      Left(d, a, b) == [left |-> TRUE, usage |-> SetInOut(MinimumUsage, d[a], d[b]).usage]
  IN IF Both(metrics, "promptTokenCount", "completionTokenCount")
     THEN Left(metrics, "promptTokenCount", "completionTokenCount")
     ELSE IF Both(usage_field, "inputTokens", "outputTokens")
     THEN Left(usage_field, "inputTokens", "outputTokens")
     ELSE IF Both(usage_field, "prompt_tokens", "completion_tokens")
     THEN Left(usage_field, "prompt_tokens", "completion_tokens")
     ELSE IF Both(token_usage, "promptTokens", "completionTokens")
     THEN Left(token_usage, "promptTokens", "completionTokens")
     ELSE IF "text" \in DOMAIN output
     THEN LET output_tokens == estimate_tokens(output.text)
              input_tokens == Max(1, output_tokens \div 2)
          IN [left |-> TRUE,
              usage |-> [input_tokens |-> Max(1, input_tokens),
                         output_tokens |-> Max(1, output_tokens),
                         total_tokens |-> Max(1, input_tokens) + Max(1, output_tokens)]]
     ELSE [left |-> FALSE, usage |-> MinimumUsage]

\* lines 237-276, the branch of the provider
ProviderFormat(response_body, provider_enum, model) ==
  LET usage_field == Get(response_body, "usage", EmptyDict)
      meta == Get(response_body, "meta", EmptyDict)
      Pair(d, a, b) == SetInOut(MinimumUsage, Get(d, a, PyInt(1)), Get(d, b, PyInt(1)))
      Split(usage, total_tokens) ==
        LET input_tokens == Max(1, (total_tokens * 3) \div 10)
        IN [raised |-> FALSE,
            usage |-> [usage EXCEPT !.input_tokens = input_tokens,
                                    !.output_tokens = Max(1, total_tokens - input_tokens)]]
  IN CASE provider_enum = ModelProvider.anthropic ->
            Pair(usage_field, "input_tokens", "output_tokens")
       [] provider_enum = ModelProvider.amazon /\ Contains("nova", lower(model)) ->
            Pair(usage_field, "inputTokens", "outputTokens")
       [] provider_enum = ModelProvider.cohere ->
            LET billed == Get(meta, "billed_tokens", PyInt(2))
            IN IF billed.t # "int" THEN [raised |-> TRUE, usage |-> MinimumUsage]
               ELSE LET usage == [MinimumUsage EXCEPT !.total_tokens = Max(2, billed.v)]
                    IN IF "tokens" \in DOMAIN meta
                       THEN SetInOut(usage, Get(meta.tokens, "prompt_tokens", PyInt(1)),
                                     Get(meta.tokens, "completion_tokens", PyInt(1)))
                       ELSE Split(usage, usage.total_tokens)
       [] provider_enum = ModelProvider.mistral ->
            Pair(usage_field, "prompt_tokens", "completion_tokens")
       [] OTHER ->
            IF "text" \in DOMAIN response_body
            THEN Split(MinimumUsage, estimate_tokens(response_body.text))
            ELSE [raised |-> FALSE, usage |-> MinimumUsage]

\* lines 279-305: the total, and the estimate from input.text / output.text
\* when both counts are still the minimum
TotalAndTextEstimate(response_body, usage) ==
  LET summed == [usage EXCEPT !.total_tokens =
                                Max(2, usage.input_tokens + usage.output_tokens)]
      input == Get(response_body, "input", EmptyDict)
      output == Get(response_body, "output", EmptyDict)
  IN IF /\ summed.input_tokens = 1
        /\ summed.output_tokens = 1
        /\ "text" \in DOMAIN input
     THEN LET input_tokens == estimate_tokens(input.text)
              output_tokens == IF "text" \in DOMAIN output
                               THEN Max(1, estimate_tokens(output.text))
                               ELSE Max(1, (input_tokens * 3) \div 2)
          IN [input_tokens |-> Max(1, input_tokens),
              output_tokens |-> output_tokens,
              total_tokens |-> Max(1, input_tokens) + output_tokens]
     ELSE summed

\* lines 140-145: ModelProvider(provider.lower()), UNKNOWN if not a member
ProviderEnum(provider) ==
  LET made == ModelProviderOf(lower(provider))
  IN IF made.raised THEN ModelProvider.unknown ELSE made.member

\* KBCostMetrics.get_token_usage
get_token_usage(response_body, provider, model) ==
  IF DOMAIN response_body = {} THEN MinimumUsage
  ELSE
    LET provider_enum == ProviderEnum(provider)
        amazon == IF provider_enum = ModelProvider.amazon
                  THEN AmazonFormats(response_body)
                  ELSE [left |-> FALSE, usage |-> MinimumUsage]
        branch == ProviderFormat(response_body, provider_enum, model)
    IN IF amazon.left THEN amazon.usage
       ELSE IF branch.raised THEN branch.usage
       ELSE TotalAndTextEstimate(response_body, branch.usage)

\* ------------------------------------------------------------ cost block
\* An amount of money is a number of 10^-8 dollars, below 1000 dollars
\* (where the "," grouping of the format adds no character).
DigitOf(d) == SubSeq("0123456789", d + 1, d + 1)

RECURSIVE NatStr(_)
\* the decimal digits of a natural number
NatStr(n) == IF n < 10 THEN DigitOf(n) ELSE NatStr(n \div 10) \o DigitOf(n % 10)

RECURSIVE FixedStr(_, _)
\* the last width decimal digits of n, with leading zeros
FixedStr(n, width) ==
  IF width = 0 THEN "" ELSE FixedStr(n \div 10, width - 1) \o DigitOf(n % 10)

\* a tie rounded to the even neighbour
quantize_half_even(value) ==
  IF value % 100 = 50 /\ (value \div 100) % 2 = 0
  THEN value \div 100
  ELSE (value + 50) \div 100

\* Decimal(str(value)).quantize(Decimal('0.000000'), rounding=ROUND_HALF_UP):
\* the number of millionths
quantize(value) == (value + 50) \div 100

\* f"${decimal_value:,.6f}"
format_cost(value) ==
  LET decimal_value == quantize(value)
  IN "$" \o NatStr(decimal_value \div 1000000) \o "."
         \o FixedStr(decimal_value % 1000000, 6)

\* the member's value (model_config.provider.value)
ProviderValue(member) ==
  CHOOSE value \in DOMAIN ModelProvider : ModelProvider[value] = member

\* lines 190-195 / 263-268: (length / 1000) * 0.0001 and (length / 1000) *
\* 0.0003.  The float product is within 10^-20 of the exact one, which
\* changes the rendering only at a rounding tie; the lengths of the model
\* keep clear of the ties.
PerCharacterCost(length, rate) == length * rate

\* KBCostMetrics.calculate_cost: a price of p * 10^-5 dollar per 1000 tokens
\* makes a token cost p * 10^-8 dollar; 100 is one millionth of a dollar
calculate_cost(model, input_tokens, output_tokens) ==
  LET pricing == IF Truthy(model) THEN get_config(model).config.pricing
                 ELSE DEFAULT_CONFIG.pricing
      input_cost == Max(1, input_tokens) * pricing.input_cost
      output_cost == Max(1, output_tokens) * pricing.output_cost
      floored == input_cost + output_cost < 100
  IN [input_cost |-> format_cost(IF floored THEN 100 ELSE input_cost),
      output_cost |-> format_cost(IF floored THEN 100 ELSE output_cost),
      total_cost |-> format_cost(IF floored THEN 200 ELSE input_cost + output_cost)]

\* lines 166-212 / 240-285: token usage, costs and the cost_metrics dict
CostBlock(response_body, config, prompt_text, text) ==
  LET returned == get_token_usage(response_body, ProviderValue(config.provider),
                                  config.model_id)
      input_tokens == estimate_tokens(prompt_text)
      output_tokens == estimate_tokens(text)
      token_usage == IF returned.input_tokens <= 1 \/ returned.output_tokens <= 1
                     THEN [input_tokens |-> Max(1, input_tokens),
                           output_tokens |-> Max(1, output_tokens),
                           total_tokens |-> Max(2, input_tokens + output_tokens)]
                     ELSE returned
      input_cost == PerCharacterCost(Len(prompt_text), 10)
      output_cost == PerCharacterCost(Len(text), 30)
      total_cost == input_cost + output_cost
  IN [usage |-> returned,
      estimated |-> returned.input_tokens <= 1 \/ returned.output_tokens <= 1,
      input_tokens |-> input_tokens,
      output_tokens |-> output_tokens,
      token_usage |-> token_usage,
      input_cost |-> input_cost,
      output_cost |-> output_cost,
      total_cost |-> total_cost,
      cost_metrics |-> [input_cost |-> format_cost(input_cost),
                        output_cost |-> format_cost(output_cost),
                        total_cost |-> format_cost(total_cost),
                        input_tokens |-> token_usage.input_tokens,
                        output_tokens |-> token_usage.output_tokens,
                        total_tokens |-> token_usage.total_tokens]]

\* ------------------------------------------- settings and request body
\* GenerationSettings(**given): the fields given and the defaults of the
\* others; fields_set names the fields given
GenerationSettings(given) ==
  [temperature |-> Get(given, "temperature", 200),
   top_p |-> Get(given, "top_p", 999),
   top_k |-> Get(given, "top_k", 250),
   max_tokens |-> Get(given, "max_tokens", 2048),
   stop_sequences |-> Get(given, "stop_sequences", PyNone),
   guardrails |-> Get(given, "guardrails", PyNone),
   fields_set |-> DOMAIN given]

\* the settings argument of a request; PyNone for no settings
SettingsGiven ==
  {PyNone,
   GenerationSettings([k \in {} |-> 0]),
   GenerationSettings([temperature |-> 700]),
   GenerationSettings([max_tokens |-> 100, stop_sequences |-> PyList(<<"END">>)])}

\* KBModelConfig.update_from_settings
update_from_settings(self, settings) ==
  [self EXCEPT !.temperature = settings.temperature,
               !.top_p = settings.top_p,
               !.top_k = settings.top_k,
               !.max_tokens = settings.max_tokens,
               !.stop_sequences = settings.stop_sequences,
               !.guardrails = IF settings.guardrails # PyNone
                              THEN settings.guardrails ELSE self.guardrails]

\* kb_utils.py lines 30-97: the request body of the provider's branch
BuildRequestBody(prompt_text, config) ==
  CASE config.provider = ModelProvider.anthropic ->
         [anthropic_version |-> "bedrock-2023-05-31",
          messages |-> <<[role |-> "user", content |-> prompt_text]>>,
          temperature |-> config.temperature,
          top_p |-> config.top_p,
          top_k |-> config.top_k,
          max_tokens |-> config.max_tokens,
          stop_sequences |-> config.stop_sequences]
    [] config.provider = ModelProvider.meta ->
         [prompt |-> prompt_text,
          temperature |-> config.temperature,
          top_p |-> config.top_p,
          max_tokens |-> config.max_tokens,
          stop_sequences |-> config.stop_sequences]
    [] config.provider = ModelProvider.cohere ->
         [message |-> prompt_text,
          temperature |-> config.temperature,
          p |-> config.top_p,
          k |-> config.top_k,
          max_tokens |-> config.max_tokens,
          stop_sequences |-> config.stop_sequences]
    [] config.provider = ModelProvider.mistral ->
         [inputs |-> prompt_text,
          parameters |-> [temperature |-> config.temperature,
                          top_p |-> config.top_p,
                          max_tokens |-> config.max_tokens,
                          stop |-> config.stop_sequences]]
    [] config.provider = ModelProvider.amazon ->
         IF Contains("nova", get_family(config.model_id))
         THEN [messages |-> <<[role |-> "user",
                               content |-> <<[text |-> prompt_text]>>]>>,
               temperature |-> config.temperature,
               top_p |-> config.top_p,
               max_tokens |-> config.max_tokens,
               stop |-> config.stop_sequences]
         ELSE [inputText |-> prompt_text,
               textGenerationConfig |->
                 [maxTokenCount |-> config.max_tokens,
                  temperature |-> config.temperature,
                  topP |-> config.top_p,
                  topK |-> config.top_k,
                  stopSequences |-> config.stop_sequences]]
    [] OTHER ->
         [prompt |-> prompt_text,
          temperature |-> config.temperature,
          top_p |-> config.top_p,
          top_k |-> config.top_k,
          max_tokens |-> config.max_tokens,
          stop_sequences |-> config.stop_sequences]

\* the object a call of get_config returns shared: DEFAULT_CONFIG itself
\* whenever the family has no pricing entry
get_config_object_shared(arn) ==
  IF \/ get_config_body(arn).raised
     \/ get_family(ModelIdentifier(arn).model_name) \notin DOMAIN _MODEL_PRICING
  THEN [ref |-> "DEFAULT_CONFIG"]
  ELSE [ref |-> "new", object |-> get_config_body(arn).config]

\* the object a call of get_config returns: a new KBModelConfig (line 246),
\* or the class attribute DEFAULT_CONFIG itself (line 257)
get_config_object(arn) ==
  IF get_config_body(arn).raised
  THEN [ref |-> "DEFAULT_CONFIG"]
  ELSE [ref |-> "new", object |-> get_config_body(arn).config]

\* KBUtils._prepare_request_body for one request on its own
_prepare_request_body(prompt_text, settings, arn) ==
  LET got == get_config(arn).config
      config == IF settings # PyNone THEN update_from_settings(got, settings)
                ELSE got
  IN BuildRequestBody(prompt_text, config)

\* lines 88-113: the parameters of retrieve_and_generate
RetrieveParams(prompt_text, kb_id, arn) ==
  [input |-> [text |-> prompt_text],
   retrieveAndGenerateConfiguration |->
     [type |-> "KNOWLEDGE_BASE",
      knowledgeBaseConfiguration |->
        [knowledgeBaseId |-> kb_id, modelArn |-> arn, numberOfResults |-> 3]]]

\* model_arn or DEFAULT_MODEL_ARN
ModelArnOr(arn) == IF Truthy(arn) THEN arn ELSE DEFAULT_MODEL_ARN

\* the arguments of each of two requests in flight together
ConcurrentRefs ==
  {None, "foo-bar",
   "arn:aws:bedrock:us-east-1::foundation-model/cohere.command-r-v1:0"}

RequestArgs(prompt_text) ==
  {[knowledge_base_id |-> None, model_arn |-> arn, prompt |-> prompt_text,
    settings |-> given] : arn \in ConcurrentRefs, given \in SettingsGiven}
  \cup
  {[knowledge_base_id |-> "KB1", model_arn |-> arn, prompt |-> prompt_text,
    settings |-> GenerationSettings([temperature |-> 700])] : arn \in ConcurrentRefs}

\* ----------------------------------------------------------------- state
VARIABLES
  knowledge_base_id,  \* argument of stream_generate
  model_arn,          \* argument of stream_generate / get_config
  prompt,             \* argument of stream_generate
  collaborator,       \* what the collaborator call of this request will do
  pc,                 \* where the generator (or the resolver) stands
  model_config,       \* KBModelConfigs.get_config(current_model_arn)
  response,           \* outcome of the collaborator call
  generated_text,
  citations_map,      \* dict (span_start, span_end) -> sorted page numbers,
                      \* as the sequence of its items in insertion order
  metadata,
  i,                  \* loop variable of the chunk loop
  out,                \* the elements yielded so far, in order
  calls,              \* the collaborator calls made so far, in order
  pulls,              \* number of times the consumer has asked for an element
  resolved,           \* result of a direct call of KBModelConfigs.get_config
  identifier,         \* the ModelIdentifier built by that call
  model_family,       \* the family get_family returned in that call
  usage,              \* the dict get_token_usage returned
  input_tokens,       \* estimate_tokens(prompt), where the estimates are used
  output_tokens,      \* estimate_tokens(generated_text), likewise
  token_usage,
  input_cost,
  output_cost,
  total_cost,
  value,              \* argument of a call of format_cost on its own
  formatted,          \* the string that call returned
  requests,           \* the requests in flight together: arguments, position,
                      \* locals (a config local is a reference to an object)
  default_object,     \* the fields of the object KBModelConfigs.DEFAULT_CONFIG
  request_body,       \* what _prepare_request_body built for the reference
  text_location       \* where _extract_generated_text reads the text for it

\* the arguments of a request and its collaborator
requestVars == <<knowledge_base_id, model_arn, prompt, collaborator>>

\* the variables of a direct call of the resolver
resolveVars == <<resolved, identifier, model_family>>

\* the locals of the cost block
costVars == <<usage, input_tokens, output_tokens, token_usage,
              input_cost, output_cost, total_cost>>

formatVars == <<value, formatted>>

concurrentVars == <<requests, default_object>>

\* the adapter applied to a resolved reference
adapterVars == <<request_body, text_location>>

vars == <<requestVars, pc, model_config, response,
          generated_text, citations_map, metadata, i, out, calls, pulls,
          resolveVars, costVars, formatVars, concurrentVars, adapterVars>>

NoConfig == [raised |-> FALSE, config |-> [model_id |-> None]]
NoIdentifier == [original_arn |-> None]
NoResponse == [kind |-> "none"]

\* ------------------------------------------------------- citation mapping
\* d[key] = val on a dict kept as its item sequence
DictSet(d, key, val) ==
  IF \E k \in DOMAIN d : d[k].key = key
  THEN [k \in DOMAIN d |-> IF d[k].key = key THEN [key |-> key, val |-> val] ELSE d[k]]
  ELSE Append(d, [key |-> key, val |-> val])

\* lines 126-129: the citation data of a retrieval response (None as <<>>)
citations_data(resp) ==
  IF "citations" \in DOMAIN resp THEN resp.citations
  ELSE IF /\ "retrieveAndGenerateResponse" \in DOMAIN resp
          /\ "citations" \in DOMAIN resp.retrieveAndGenerateResponse
       THEN resp.retrieveAndGenerateResponse.citations
       ELSE <<>>

\* lines 147-158: int(page_number) of each reference that has one
\* (a None is skipped, a value int() rejects is reported and skipped)
page_numbers_for_citation(citation) ==
  LET kept == SelectSeq(citation.pages, LAMBDA p : p.t = "int")
  IN [k \in DOMAIN kept |-> kept[k].v]

RECURSIVE MapCitationsLastPages(_, _, _, _)
\* the loop with the page-number set replaced, not extended, by each citation
MapCitationsLastPages(cs, k, unique_page_numbers, cmap) ==
  IF k > Len(cs) THEN [unique_page_numbers |-> unique_page_numbers,
                       citations_map |-> cmap]
  ELSE
    LET citation == cs[k]
        nums == page_numbers_for_citation(citation)
        mapped == /\ citation.span_start # PyNone
                  /\ citation.span_end # PyNone
                  /\ nums # <<>>
    IN MapCitationsLastPages(cs, k + 1, Range(nums),
                             IF mapped
                             THEN DictSet(cmap, <<citation.span_start, citation.span_end>>,
                                          PySorted(nums))
                             ELSE cmap)

RECURSIVE MapCitations(_, _, _, _)
\* lines 132-162: the loop over citations_data from index k on, given the
\* page numbers and the map collected so far
MapCitations(cs, k, unique_page_numbers, cmap) ==
  IF k > Len(cs) THEN [unique_page_numbers |-> unique_page_numbers,
                       citations_map |-> cmap]
  ELSE
    LET citation == cs[k]
        nums == page_numbers_for_citation(citation)
        mapped == /\ citation.span_start # PyNone
                  /\ citation.span_end # PyNone
                  /\ nums # <<>>
    IN MapCitations(cs, k + 1, unique_page_numbers \cup Range(nums),
                    IF mapped
                    THEN DictSet(cmap, <<citation.span_start, citation.span_end>>,
                                 PySorted(nums))
                    ELSE cmap)

\* ------------------------------------------------------------ chunk loop
\* an int compared with a value that is not a number raises TypeError
CompareRaises(val) == val.t # "int"

\* line 309 for one item of citations_map: raises, or tells the overlap
\*   not (chunk_end <= span_start or chunk_start >= span_end)
\* the right operand of "or" is evaluated only if the left one is false
OverlapRaises(item, chunk_start, chunk_end) ==
  \/ CompareRaises(item.key[1])
  \/ /\ ~ (chunk_end <= item.key[1].v)
     /\ CompareRaises(item.key[2])

\* the comparisons not strict: a span that touches the chunk counts
OverlapsTouching(item, chunk_start, chunk_end) ==
  ~ (chunk_end < item.key[1].v \/ chunk_start > item.key[2].v)

Overlaps(item, chunk_start, chunk_end) ==
  ~ (chunk_end <= item.key[1].v \/ chunk_start >= item.key[2].v)

\* lines 300-325: the element of the iteration at offset idx, or raised
LoopBody(text, cmap, meta, idx) ==
  LET chunk == PySlice(text, idx, idx + chunk_size)
      chunk_start == idx
      chunk_end == idx + Len(chunk)
      is_final == idx + chunk_size >= Len(text)
      hit == {k \in DOMAIN cmap : Overlaps(cmap[k], chunk_start, chunk_end)}
      chunk_page_numbers == SortedSeq(UNION {Range(cmap[k].val) : k \in hit})
      response_chunk == [chunk |-> chunk, is_final |-> is_final]
      with_pages == IF chunk_page_numbers # <<>>
                    THEN response_chunk @@ ("chunk_page_numbers" :> chunk_page_numbers)
                    ELSE response_chunk
      with_meta == IF is_final THEN with_pages @@ ("metadata" :> meta)
                   ELSE with_pages
  IN IF \E k \in DOMAIN cmap : OverlapRaises(cmap[k], chunk_start, chunk_end)
     THEN [raised |-> TRUE]
     ELSE [raised |-> FALSE, element |-> with_meta]

ErrorElement(message) == [error |-> message, is_final |-> TRUE]

\* ------------------------------------------------------- stream_generate
\* line 71: model_arn or DEFAULT_MODEL_ARN
current_model_arn == IF Truthy(model_arn) THEN model_arn ELSE DEFAULT_MODEL_ARN

\* lines 73-77
ConfigFor(arn) ==
  LET got == get_config(arn)
  IN IF got.raised THEN DEFAULT_CONFIG ELSE got.config

\* lines 299-328, entered at the iteration for offset idx: the generator runs
\* to its next yield (a chunk at line 327, or the error element of line 332
\* when the body raises) or to its end
LoopFrom(text, cmap, meta, idx) ==
  IF idx >= Len(text) THEN [pc |-> "done", i |-> idx, yielded |-> <<>>]
  ELSE LET step == LoopBody(text, cmap, meta, idx)
       IN IF step.raised
          THEN [pc |-> "at_outer_error", i |-> idx,
                yielded |-> <<ErrorElement("TypeError")>>]
          ELSE [pc |-> "at_chunk", i |-> idx, yielded |-> <<step.element>>]

\* "if" without its "else": the direct call follows the retrieval call
CollaboratorCallsBoth(kb_id, arn) ==
  IF Truthy(kb_id)
  THEN <<[api |-> "retrieve_and_generate", modelRef |-> arn],
         [api |-> "invoke_model", modelRef |-> arn]>>
  ELSE <<[api |-> "invoke_model", modelRef |-> arn]>>

\* lines 86, 115 and 224, 235: the collaborator calls of one request
CollaboratorCalls(kb_id, arn) ==
  IF Truthy(kb_id)
  THEN <<[api |-> "retrieve_and_generate", modelRef |-> arn]>>
  ELSE <<[api |-> "invoke_model", modelRef |-> arn]>>

\* the locals of the cost block take the values it computed; the estimates
\* of lines 169-172 / 243-246 are made only where they are used
SetCostLocals(cost) ==
  /\ usage' = cost.usage
  /\ input_tokens' = IF cost.estimated THEN cost.input_tokens ELSE input_tokens
  /\ output_tokens' = IF cost.estimated THEN cost.output_tokens ELSE output_tokens
  /\ token_usage' = cost.token_usage
  /\ input_cost' = cost.input_cost
  /\ output_cost' = cost.output_cost
  /\ total_cost' = cost.total_cost

\* the first request for an element, knowledge-base path (lines 70-222 and
\* the first iteration of the chunk loop)
StartKB ==
  /\ pc = "created"
  /\ Truthy(knowledge_base_id)
  /\ pulls' = pulls + 1
  /\ model_config' = ConfigFor(current_model_arn)
  /\ calls' = calls \o CollaboratorCalls(knowledge_base_id, current_model_arn)
  /\ LET outcome == collaborator
     IN
       /\ response' = outcome
       /\ IF outcome.kind = "raise"
          THEN /\ out' = Append(out, ErrorElement("Knowledge base query failed"))
               /\ pc' = "at_kb_error"
               /\ UNCHANGED <<generated_text, citations_map, metadata, i, costVars>>
          ELSE \E m \in {MapCitations(citations_data(outcome.body), 1, {}, <<>>)},
                  cost \in {CostBlock(outcome.body, model_config', prompt,
                                      outcome.body.output.text)} :
                 /\ generated_text' = outcome.body.output.text
                 /\ citations_map' = m.citations_map
                 /\ SetCostLocals(cost)
                 /\ metadata' = [page_numbers |-> SortedSeq(m.unique_page_numbers),
                                 cost_metrics |-> cost.cost_metrics]
                 /\ \E run \in {LoopFrom(generated_text', citations_map',
                                          metadata', 0)} :
                      /\ i' = run.i
                      /\ pc' = run.pc
                      /\ out' = out \o run.yielded
  /\ UNCHANGED <<requestVars, resolveVars, formatVars, concurrentVars,
                 adapterVars>>

\* the first request for an element, direct path (lines 70-84, 224-295 and
\* the first iteration of the chunk loop)
StartLLM ==
  /\ pc = "created"
  /\ ~ Truthy(knowledge_base_id)
  /\ pulls' = pulls + 1
  /\ model_config' = ConfigFor(current_model_arn)
  /\ calls' = calls \o CollaboratorCalls(knowledge_base_id, current_model_arn)
  /\ LET outcome == collaborator
     IN
       /\ response' = outcome
       /\ \E extracted \in {IF outcome.kind = "raise" THEN [raised |-> TRUE]
                             ELSE _extract_generated_text(outcome.body,
                                                          model_config')} :
            IF extracted.raised
            THEN /\ out' = Append(out, ErrorElement("Direct LLM query failed"))
                 /\ pc' = "at_llm_error"
                 /\ UNCHANGED <<generated_text, metadata, i, costVars>>
            ELSE \E cost \in {CostBlock(outcome.body, model_config', prompt,
                                        extracted.text)} :
                   /\ generated_text' = extracted.text
                   /\ SetCostLocals(cost)
                   /\ metadata' = [page_numbers |-> <<>>,
                                   cost_metrics |-> cost.cost_metrics]
                   /\ \E run \in {LoopFrom(generated_text', <<>>, metadata', 0)} :
                        /\ i' = run.i
                        /\ pc' = run.pc
                        /\ out' = out \o run.yielded
  /\ UNCHANGED <<requestVars, citations_map, resolveVars, formatVars, concurrentVars,
                 adapterVars>>

\* a further request after a chunk: line 328, then the next iteration
ResumeChunk ==
  /\ pc = "at_chunk"
  /\ pulls' = pulls + 1
  /\ LET run == LoopFrom(generated_text, citations_map, metadata, i + chunk_size)
     IN /\ i' = run.i
        /\ pc' = run.pc
        /\ out' = out \o run.yielded
  /\ UNCHANGED <<requestVars, model_config, response, generated_text,
                 citations_map, metadata, calls, resolveVars, costVars, formatVars, concurrentVars,
                 adapterVars>>

\* a further request after an error element: return (lines 222, 295) or the
\* end of the function (after line 335)
ResumeError ==
  /\ pc \in {"at_kb_error", "at_llm_error", "at_outer_error"}
  /\ pulls' = pulls + 1
  /\ pc' = "done"
  /\ UNCHANGED <<requestVars, model_config, response, generated_text,
                 citations_map, metadata, i, out, calls, resolveVars, costVars,
                 formatVars, concurrentVars,
                 adapterVars>>

\* a bare "except:" catches every exception
ExceptAll(exc) == TRUE

\* "except Exception" (lines 216, 289, 330) catches exc
ExceptException(exc) == exc \notin {"GeneratorExit", "CancelledError"}

\* the consumer stops: the generator is closed, GeneratorExit is raised at
\* the yield where it is suspended; a yield inside the outer try (lines
\* 218, 291, 327) is guarded by the handler of line 330
Close ==
  /\ pc \in {"created", "at_chunk", "at_kb_error", "at_llm_error", "at_outer_error"}
  /\ IF /\ pc \in {"at_chunk", "at_kb_error", "at_llm_error"}
        /\ ExceptException("GeneratorExit")
     THEN /\ out' = Append(out, ErrorElement("GeneratorExit"))
          /\ pc' = "at_outer_error"
     ELSE /\ pc' = "closed"
          /\ UNCHANGED out
  /\ UNCHANGED <<requestVars, model_config, response, generated_text,
                 citations_map, metadata, i, calls, pulls, resolveVars, costVars,
                 formatVars, concurrentVars,
                 adapterVars>>

\* before anything has run
Idle ==
  /\ model_config = NoConfig.config
  /\ response = NoResponse
  /\ generated_text = <<>>
  /\ citations_map = <<>>
  /\ metadata = [page_numbers |-> <<>>, cost_metrics |-> PyNone]
  /\ i = 0
  /\ out = <<>>
  /\ calls = <<>>
  /\ pulls = 0
  /\ resolved = NoConfig
  /\ identifier = NoIdentifier
  /\ model_family = None
  /\ usage = MinimumUsage
  /\ input_tokens = 1
  /\ output_tokens = 1
  /\ token_usage = MinimumUsage
  /\ input_cost = 0
  /\ output_cost = 0
  /\ total_cost = 0
  /\ formatted = None
  /\ default_object = DEFAULT_CONFIG
  /\ request_body = PyNone
  /\ text_location = None

Init ==
  /\ knowledge_base_id \in KnowledgeBaseIds
  /\ model_arn \in StreamRefs
  /\ prompt = "Explain"
  /\ collaborator \in IF Truthy(knowledge_base_id) THEN KBOutcomes ELSE LLMOutcomes
  /\ pc = "created"
  /\ value = 0
  /\ requests = <<>>
  /\ Idle

Next == StartKB \/ StartLLM \/ ResumeChunk \/ ResumeError \/ Close

Spec == Init /\ [][Next]_vars

\* ------------------------------------------------ requests with usage data
InitCost ==
  /\ knowledge_base_id \in {None, "KB1"}
  /\ model_arn \in CostRefs
  /\ prompt \in Prompts
  /\ collaborator \in IF Truthy(knowledge_base_id) THEN CostKBOutcomes
                                                   ELSE CostLLMOutcomes
  /\ pc = "created"
  /\ value = 0
  /\ requests = <<>>
  /\ Idle

SpecCost == InitCost /\ [][Next]_vars

\* ------------------------------------------ requests with odd citations
InitCitations ==
  /\ knowledge_base_id \in {None, "KB1"}
  /\ model_arn = None
  /\ prompt = "Explain"
  /\ collaborator \in IF Truthy(knowledge_base_id) THEN AnomalousKBOutcomes
                                                   ELSE LLMOutcomes
  /\ pc = "created"
  /\ value = 0
  /\ requests = <<>>
  /\ Idle

SpecCitations == InitCitations /\ [][Next]_vars

\* ---------------------------------------------- format_cost on its own
InitFormat ==
  /\ value \in FormatValues
  /\ pc = "format"
  /\ knowledge_base_id = None
  /\ model_arn = None
  /\ prompt = ""
  /\ collaborator = NoResponse
  /\ requests = <<>>
  /\ Idle

\* lines 198-200 / 271-273
FormatCost ==
  /\ pc = "format"
  /\ formatted' = format_cost(value)
  /\ pc' = "formatted"
  /\ UNCHANGED <<requestVars, model_config, response, generated_text,
                 citations_map, metadata, i, out, calls, pulls, resolveVars,
                 costVars, value, concurrentVars,
                 adapterVars>>

NextFormat == FormatCost

SpecFormat == InitFormat /\ [][NextFormat]_vars

\* ------------------------------------------------ requests in flight together
\* Two requests run stream_generate up to their collaborator call.  They
\* interleave at every call boundary, which includes every interleaving the
\* event loop allows (there a request runs undisturbed up to its first
\* yield) and those of a server running requests on threads.
NoObject == [ref |-> "none"]

\* the locals of a request that has not started
Created ==
  [pc |-> "created", model_config |-> NoObject, prepared |-> NoObject,
   request_body |-> PyNone]

\* the fields of the object a local refers to
Deref(local) ==
  IF local.ref = "DEFAULT_CONFIG" THEN default_object ELSE local.object

InitConcurrent ==
  /\ requests \in {<<first @@ Created, second @@ Created>> :
                     first \in RequestArgs("Explain"),
                     second \in RequestArgs("Why?")}
  /\ pc = "concurrent"
  /\ knowledge_base_id = None
  /\ model_arn = None
  /\ prompt = ""
  /\ collaborator = NoResponse
  /\ value = 0
  /\ Idle

\* query_service.py lines 71-86: the config local and the choice of the path
Enter(r) ==
  /\ requests[r].pc = "created"
  /\ requests' =
       [requests EXCEPT
          ![r].model_config = get_config_object(ModelArnOr(requests[r].model_arn)),
          ![r].pc = IF Truthy(requests[r].knowledge_base_id) THEN "kb" ELSE "direct"]
  /\ UNCHANGED default_object

\* query_service.py lines 88-115: the parameters of retrieve_and_generate
CallKB(r) ==
  /\ requests[r].pc = "kb"
  /\ requests' =
       [requests EXCEPT
          ![r].request_body = RetrieveParams(requests[r].prompt,
                                             requests[r].knowledge_base_id,
                                             ModelArnOr(requests[r].model_arn)),
          ![r].pc = "called"]
  /\ UNCHANGED default_object

\* kb_utils.py line 23
GetConfig(r) ==
  /\ requests[r].pc = "direct"
  /\ requests' =
       [requests EXCEPT
          ![r].prepared = get_config_object(ModelArnOr(requests[r].model_arn)),
          ![r].pc = "got"]
  /\ UNCHANGED default_object

\* kb_utils.py lines 26-27: the object the local refers to is updated in place
UpdateFromSettings(r) ==
  /\ requests[r].pc = "got"
  /\ LET local == requests[r].prepared
         updated == update_from_settings(Deref(local), requests[r].settings)
     IN IF requests[r].settings = PyNone
        THEN /\ requests' = [requests EXCEPT ![r].pc = "updated"]
             /\ UNCHANGED default_object
        ELSE IF local.ref = "DEFAULT_CONFIG"
        THEN /\ default_object' = updated
             /\ requests' = [requests EXCEPT ![r].pc = "updated"]
        ELSE /\ requests' = [requests EXCEPT ![r].prepared.object = updated,
                                              ![r].pc = "updated"]
             /\ UNCHANGED default_object

\* kb_utils.py lines 30-97 and query_service.py lines 227-235
BuildBody(r) ==
  /\ requests[r].pc = "updated"
  /\ requests' =
       [requests EXCEPT
          ![r].request_body = BuildRequestBody(requests[r].prompt,
                                               Deref(requests[r].prepared)),
          ![r].pc = "called"]
  /\ UNCHANGED default_object

ConcurrentStep(r) ==
  /\ \/ Enter(r)
     \/ CallKB(r)
     \/ GetConfig(r)
     \/ UpdateFromSettings(r)
     \/ BuildBody(r)
  /\ UNCHANGED <<requestVars, pc, model_config, response, generated_text,
                 citations_map, metadata, i, out, calls, pulls, resolveVars,
                 costVars, formatVars, adapterVars>>

NextConcurrent == \E r \in DOMAIN requests : ConcurrentStep(r)

SpecConcurrent == InitConcurrent /\ [][NextConcurrent]_vars

\* ------------------------------------------------ the resolver on its own
InitResolve ==
  /\ model_arn \in References
  /\ pc = "resolve"
  /\ knowledge_base_id = None
  /\ prompt = ""
  /\ collaborator = NoResponse
  /\ value = 0
  /\ requests = <<>>
  /\ Idle

\* KBModelConfigs.get_config(model_arn), with the locals of its try block
Resolve ==
  /\ pc = "resolve"
  /\ resolved' = get_config(model_arn)
  /\ identifier' = IF get_config_body(model_arn).raised THEN NoIdentifier
                   ELSE ModelIdentifier(model_arn)
  /\ model_family' = IF get_config_body(model_arn).raised THEN None
                     ELSE get_family(identifier'.model_name)
  /\ pc' = "resolved"
  /\ UNCHANGED <<requestVars, model_config, response, generated_text,
                 citations_map, metadata, i, out, calls, pulls, costVars,
                 formatVars, concurrentVars,
                 adapterVars>>

\* ModelFamilyMapper.get_family applied to the string itself
Classify ==
  /\ pc = "resolve"
  /\ model_arn # None
  /\ model_family' = get_family(model_arn)
  /\ pc' = "classified"
  /\ UNCHANGED <<requestVars, model_config, response, generated_text,
                 citations_map, metadata, i, out, calls, pulls,
                 resolved, identifier, costVars, formatVars, concurrentVars,
                 adapterVars>>

\* the two adapter calls of the direct path for the reference: the request
\* body of query_service.py line 227 and the extraction of line 238, which
\* is given the configuration of lines 73-77
Adapt ==
  /\ pc = "resolved"
  /\ request_body' = _prepare_request_body("Explain", PyNone, current_model_arn)
  /\ text_location' = TextLocation(ConfigFor(current_model_arn))
  /\ pc' = "adapted"
  /\ UNCHANGED <<requestVars, model_config, response, generated_text,
                 citations_map, metadata, i, out, calls, pulls, resolveVars,
                 costVars, formatVars, concurrentVars>>

NextResolve == Resolve \/ Classify \/ Adapt

SpecResolve == InitResolve /\ [][NextResolve]_vars

\* ================================================================ claims
IsChunk(e) == "chunk" \in DOMAIN e
IsError(e) == "error" \in DOMAIN e

RECURSIVE ConcatChunks(_)
\* the chunk texts of the elements of s, concatenated in order
ConcatChunks(s) ==
  IF s = <<>> THEN <<>>
  ELSE (IF IsChunk(Head(s)) THEN Head(s).chunk ELSE <<>>) \o ConcatChunks(Tail(s))

\* the range [FragStart(k), FragEnd(k)) of the generated text that the k-th
\* element covers
FragStart(k) == Len(ConcatChunks(SubSeq(out, 1, k - 1)))
FragEnd(k) == FragStart(k) + Len(out[k].chunk)

\* an error element was emitted
HasFailed == \E k \in DOMAIN out : IsError(out[k])

\* the collaborator answered, so that there is a generated text
TextGenerated == response.kind \in {"kb", "llm"}

\* the stream has ended and delivered no error element
Succeeded == pc = "done" /\ TextGenerated /\ ~ HasFailed

\* the citations of the retrieval response, at either location
AllCitations ==
  IF response.kind # "kb" THEN {}
  ELSE (IF "citations" \in DOMAIN response.body
        THEN Range(response.body.citations) ELSE {})
       \cup
       (IF "retrieveAndGenerateResponse" \in DOMAIN response.body
        THEN Range(response.body.retrieveAndGenerateResponse.citations) ELSE {})

\* the integer page numbers of a citation
PagesOf(c) == {c.pages[j].v : j \in {j \in DOMAIN c.pages : c.pages[j].t = "int"}}

\* the citation has a span of two integers
HasSpan(c) == c.span_start.t = "int" /\ c.span_end.t = "int"

\* the span [span_start, span_end) and the range [fs, fe) overlap
SpanOverlaps(c, fs, fe) == ~ (fe <= c.span_start.v \/ fs >= c.span_end.v)

ChunkPages(e) ==
  IF "chunk_page_numbers" \in DOMAIN e THEN Range(e.chunk_page_numbers) ELSE {}

IsSortedDistinct(s) == \A a, b \in DOMAIN s : a < b => s[a] < s[b]

CeilDiv(n, d) == (n + d - 1) \div d

\* C1: reassembly law: for every generated text T, when the stream has
\* ended, the chunk texts of all emitted fragments, concatenated in emission
\* order, are exactly T.
C1_Reassembly ==
  (pc = "done" /\ TextGenerated) => ConcatChunks(out) = generated_text

\* C2: every stream that has ended, failed or not, empty text or not, has
\* exactly one element with is_final true, and it is the last one; on
\* success that element and no other carries the metadata bundle
\* (page_numbers and cost_metrics).
C2_OneFinalLast ==
  pc = "done" =>
    /\ out # <<>>
    /\ \A k \in DOMAIN out : out[k].is_final <=> k = Len(out)
    /\ ~ HasFailed =>
         /\ \A k \in DOMAIN out : ("metadata" \in DOMAIN out[k]) <=> k = Len(out)
         /\ \A k \in DOMAIN out :
              "metadata" \in DOMAIN out[k] =>
                /\ DOMAIN out[k].metadata = {"page_numbers", "cost_metrics"}
                /\ out[k].metadata.cost_metrics # PyNone

\* C3: a successful stream for a text of length N has exactly ceil(N/100)
\* fragments, every fragment but the last has exactly 100 characters, and
\* the empty text gives exactly one fragment (empty text, is_final true).
C3_FragmentCount ==
  Succeeded =>
    LET N == Len(generated_text)
    IN /\ Len(out) = IF N = 0 THEN 1 ELSE CeilDiv(N, 100)
       /\ \A k \in 1..(Len(out) - 1) : Len(out[k].chunk) = 100
       /\ N = 0 => (Len(out) = 1 /\ out[1].chunk = <<>> /\ out[1].is_final)

\* C4: overlap completeness: every fragment carries all page numbers of
\* every citation of the response that has a span and a page number and
\* whose span overlaps the fragment's range, and chunk_page_numbers is
\* sorted ascending without duplicates.
C4_OverlapCompleteness ==
  \A k \in DOMAIN out :
    IsChunk(out[k]) =>
      /\ \A c \in AllCitations :
           (HasSpan(c) /\ PagesOf(c) # {} /\ SpanOverlaps(c, FragStart(k), FragEnd(k)))
             => PagesOf(c) \subseteq ChunkPages(out[k])
      /\ "chunk_page_numbers" \in DOMAIN out[k] =>
           IsSortedDistinct(out[k].chunk_page_numbers)

\* C5: strict overlap law: every page number on a fragment comes from a
\* citation whose span overlaps the fragment's range (a span that only
\* touches the range's boundary does not), and a fragment that no citation
\* overlaps has no chunk_page_numbers field.
C5_StrictOverlap ==
  \A k \in DOMAIN out :
    IsChunk(out[k]) =>
      LET over == {c \in AllCitations :
                     /\ HasSpan(c)
                     /\ c.span_start.v < FragEnd(k)
                     /\ FragStart(k) < c.span_end.v}
      IN /\ \A p \in ChunkPages(out[k]) : \E c \in over : p \in PagesOf(c)
         /\ over = {} => "chunk_page_numbers" \notin DOMAIN out[k]

\* a fragment was emitted without page numbers although the span of a
\* citation with page numbers ends exactly where the fragment starts
C5_Witness ==
  \E k \in DOMAIN out :
    /\ IsChunk(out[k])
    /\ "chunk_page_numbers" \notin DOMAIN out[k]
    /\ \E c \in AllCitations :
         HasSpan(c) /\ PagesOf(c) # {} /\ c.span_end.v = FragStart(k)

\* C6: a stream that fails consists of exactly one element, the error
\* element: no fragment before it, nothing after it.
C6_SingleErrorElement == HasFailed => Len(out) = 1

\* the chunk texts of s lie left to right in the generated text
ChunkOrder(s) ==
  \A a, b \in DOMAIN s :
    (a < b /\ IsChunk(s[a]) /\ IsChunk(s[b]))
      => s[a].chunk[Len(s[a].chunk)] < s[b].chunk[1]

\* C7: the stream is lazy and FIFO: an element is produced only by a
\* request of the consumer and one at a time, emitted elements keep their
\* order, fragments come in increasing order of their offset, and once the
\* consumer has stopped nothing more is produced and no collaborator is
\* called.
C7_LazyFIFO ==
  [][/\ Len(out') <= pulls'
     /\ Len(out') <= Len(out) + 1
     /\ SubSeq(out', 1, Len(out)) = out
     /\ ChunkOrder(out')
     /\ pulls' = pulls => (out' = out /\ calls' = calls)
     /\ pc = "closed" => (out' = out /\ calls' = calls /\ pc' = "closed")]_vars

\* the consumer stopped after a fragment that was not the last
C7_Witness ==
  /\ pc = "closed"
  /\ out # <<>>
  /\ IsChunk(out[Len(out)])
  /\ ~ out[Len(out)].is_final

\* C8: a request makes at most one collaborator call: retrieve_and_generate
\* exactly when a knowledge-base id is given, invoke_model exactly when not,
\* never both, and a failed call is not repeated.
C8_OneCollaboratorCall ==
  /\ Len(calls) <= 1
  /\ pulls = 0 => calls = <<>>
  /\ pulls >= 1 =>
       /\ Len(calls) = 1
       /\ calls[1].api = IF knowledge_base_id \notin {None, ""}
                         THEN "retrieve_and_generate" ELSE "invoke_model"

\* a stream ended after its only collaborator call had failed
C8_Witness ==
  /\ pc = "done"
  /\ response.kind = "raise"
  /\ Len(calls) = 1
  /\ calls[1].api = "retrieve_and_generate"

\* C9: get_config never raises and gives max_tokens >= 1 and prices >= 0.
C9_ConfigWellFormed ==
  pc = "resolved" =>
    /\ ~ resolved.raised
    /\ resolved.config.max_tokens >= 1
    /\ resolved.config.pricing.input_cost >= 0
    /\ resolved.config.pricing.output_cost >= 0

\* a reference of a family without a token limit of its own was resolved
C9_Witness ==
  /\ pc = "resolved"
  /\ get_family(resolved.config.model_id) = "command-r-plus"
  /\ resolved.config.max_tokens = 2048

\* the values of the fixed default config
IsDefaultLimits(config) ==
  /\ config.max_tokens = 2048
  /\ config.pricing = [input_cost |-> 10, output_cost |-> 30]
  /\ config.supports_query_decomposition = FALSE

\* the reference has no foundation-model marker
NoMarker(arn) == ~ Contains("foundation-model/", arn)

\* C10 as stated: a reference that fails to parse or whose family lookup
\* misses resolves to provider UNKNOWN, max tokens 2048, pricing
\* (0.0001, 0.0003), decomposition-capable false.
C10_DefaultOnMiss ==
  (pc = "resolved"
   /\ (NoMarker(model_arn) \/ get_family(resolved.config.model_id) = "unknown"))
    => /\ resolved.config.provider = "UNKNOWN"
       /\ IsDefaultLimits(resolved.config)

\* C10 amended: a reference without the marker resolves to provider UNKNOWN
\* and the default limits; a reference whose model name matches no family
\* rule gets max tokens 2048, pricing (0.0001, 0.0003) and
\* decomposition-capable false, while its provider stays the one parsed from
\* the reference.
C10_DefaultOnMissAmended ==
  pc = "resolved" =>
    /\ NoMarker(model_arn) =>
         (resolved.config.provider = "UNKNOWN" /\ IsDefaultLimits(resolved.config))
    /\ get_family(resolved.config.model_id) = "unknown" =>
         IsDefaultLimits(resolved.config)

\* a reference with a known provider and a name of no family was resolved
C10_Witness ==
  /\ pc = "resolved"
  /\ model_arn = "foundation-model/anthropic.claude-v9"
  /\ resolved.config.provider = "ANTHROPIC"
  /\ IsDefaultLimits(resolved.config)

\* the references of the claude-3-sonnet scenario: marker, provider
\* anthropic, a name of the claude-3-sonnet rule and a context-size suffix
SonnetWithSuffix ==
  {pre \o "anthropic.claude-3-sonnet-20240229-v1:0" \o suf :
     pre \in {Marker, "arn:aws:bedrock:us-east-1::" \o Marker},
     suf \in {":200000", ":200k"}}

\* C11: a reference whose model name matches the claude-3-sonnet rule and
\* that carries a context-size suffix resolves to provider anthropic, family
\* claude-3-sonnet, max tokens 200000 and decomposition-capable true.
C11_SonnetWithSuffix ==
  (pc = "resolved" /\ model_arn \in SonnetWithSuffix) =>
    /\ ~ resolved.raised
    /\ resolved.config.provider = "ANTHROPIC"
    /\ model_family = "claude-3-sonnet"
    /\ resolved.config.max_tokens = 200000
    /\ resolved.config.supports_query_decomposition = TRUE

\* the reference of the scenario was resolved and its suffix split off
C11_Witness ==
  /\ pc = "resolved"
  /\ model_arn = "arn:aws:bedrock:us-east-1::foundation-model/anthropic.claude-3-sonnet-20240229-v1:0:200000"
  /\ identifier.token_count = "200000"
  /\ resolved.config.max_tokens = 200000

\* the name get_family was applied to
ClassifiedName ==
  IF pc = "classified" THEN model_arn ELSE identifier.model_name

\* the rules whose pattern is found in the normalized name
MatchingRules(name) ==
  {r \in DOMAIN _FAMILY_PATTERNS :
     re_search(_FAMILY_PATTERNS[r].pattern, replace(lower(name), "_", "-"))}

\* C12: get_family returns the family of the earliest-declared pattern that
\* matches the lowercased, underscore-to-hyphen-normalized name, also when
\* two patterns match, and "unknown" only when no pattern matches.
C12_FirstMatchWins ==
  (pc = "classified" \/ (pc = "resolved" /\ model_arn # None)) =>
    LET matching == MatchingRules(ClassifiedName)
    IN /\ model_family = "unknown" <=> matching = {}
       /\ \A r \in matching :
            (\A q \in matching : r <= q) => model_family = _FAMILY_PATTERNS[r].family

\* a name that two rules of different families match was classified
C12_Witness ==
  /\ pc = "classified"
  /\ \E r, q \in MatchingRules(model_arn) :
       r < q /\ _FAMILY_PATTERNS[r].family # _FAMILY_PATTERNS[q].family
  /\ model_family = "llama-3-70b-instruct"

\* the characters k, K, m, M
UnitChars == {"k", "K", "m", "M"}

\* s is <digits> optionally followed by one of k, K, m, M
IsSuffix(s) ==
  /\ Len(s) >= 1
  /\ \/ AllDigits(s, 1, Len(s))
     \/ Len(s) >= 2 /\ AllDigits(s, 1, Len(s) - 1) /\ Char(s, Len(s)) \in UnitChars

\* the reference ends in ':' followed by a suffix
EndsInSuffix(arn) ==
  \E b \in 1..Len(arn) :
    Char(arn, b) = ":" /\ IsSuffix(SubSeq(arn, b + 1, Len(arn)))

\* C13 as stated: every reference that ends in ':<digits>' optionally
\* followed by one of k, K, m, M is split into base and that suffix with
\* base + ':' + suffix = reference; every other reference has base = the
\* whole reference and an empty suffix.
C13_SplitEverySuffix ==
  (pc = "resolved" /\ model_arn # None) =>
    IF EndsInSuffix(model_arn)
    THEN /\ IsSuffix(identifier.token_count)
         /\ identifier.base_arn \o ":" \o identifier.token_count = model_arn
    ELSE /\ identifier.base_arn = model_arn
         /\ identifier.token_count = ""

\* the reference without the newline it may end in
WithoutFinalNewline(arn) ==
  IF Len(arn) >= 1 /\ Char(arn, Len(arn)) = "\n"
  THEN SubSeq(arn, 1, Len(arn) - 1) ELSE arn

\* the reference, less a final newline, is <head>:<digits>:<suffix> with a
\* head of at least one character and no newline
VersionedWithSuffix(arn) ==
  LET line == WithoutFinalNewline(arn)
  IN \E a, b \in 1..Len(line) :
       /\ 2 <= a /\ a + 2 <= b
       /\ Char(line, a) = ":" /\ Char(line, b) = ":"
       /\ \A j \in 1..(a - 1) : Char(line, j) # "\n"
       /\ AllDigits(line, a + 1, b - 1)
       /\ IsSuffix(SubSeq(line, b + 1, Len(line)))

\* C13 amended: a reference is split exactly when, less one final newline,
\* it is <head>:<digits>:<suffix> (the base itself ends in ':<digits>', the
\* head is not empty and has no newline); then base + ':' + suffix is the
\* reference less that newline.  Every other reference has base = the whole
\* reference and an empty suffix.
C13_SplitVersioned ==
  (pc = "resolved" /\ model_arn # None) =>
    IF VersionedWithSuffix(model_arn)
    THEN /\ IsSuffix(identifier.token_count)
         /\ identifier.base_arn \o ":" \o identifier.token_count
              = WithoutFinalNewline(model_arn)
    ELSE /\ identifier.base_arn = model_arn
         /\ identifier.token_count = ""

\* a versioned reference with a suffix was split
C13_Witness ==
  /\ pc = "resolved"
  /\ model_arn = "foundation-model/anthropic.claude-v2:1:200k"
  /\ identifier.base_arn = "foundation-model/anthropic.claude-v2:1"
  /\ identifier.token_count = "200k"

TokenFields == {"input_tokens", "output_tokens", "total_tokens"}

\* every count of a usage dict is an integer >= 1
PositiveCounts(u) == \A f \in TokenFields : u[f] \in Int /\ u[f] >= 1

\* the cost blocks of the elements yielded so far
CostMetricsYielded ==
  {out[k].metadata.cost_metrics : k \in {k \in DOMAIN out : "metadata" \in DOMAIN out[k]}}

\* the estimates of lines 169-172 / 243-246 have been made
EstimatesMade ==
  TextGenerated /\ (usage.input_tokens <= 1 \/ usage.output_tokens <= 1)

\* C14: every token count produced is an integer >= 1: the estimates
\* estimate_tokens made of the prompt and of the generated text (1 for the
\* empty string), each count of the dict get_token_usage returned, and each
\* count in the cost_metrics of a final fragment, whatever the response
\* body and the provider.
C14_PositiveTokenCounts ==
  /\ input_tokens \in Int /\ input_tokens >= 1
  /\ output_tokens \in Int /\ output_tokens >= 1
  /\ (EstimatesMade /\ prompt = "") => input_tokens = 1
  /\ (EstimatesMade /\ generated_text = <<>>) => output_tokens = 1
  /\ PositiveCounts(usage)
  /\ PositiveCounts(token_usage)
  /\ \A cm \in CostMetricsYielded : PositiveCounts(cm)

\* a response reporting a zero and a negative count for an empty prompt has
\* been streamed to its final fragment
C14_Witness ==
  /\ pc = "done"
  /\ prompt = ""
  /\ response.kind = "llm"
  /\ "usage" \in DOMAIN response.body
  /\ response.body.usage = [input_tokens |-> PyInt(0), output_tokens |-> PyInt(-3)]
  /\ model_config.provider = ModelProvider.anthropic
  /\ EstimatesMade
  /\ CostMetricsYielded # {}

\* C15: no input_cost, output_cost or total_cost of a streamed response is
\* rendered as $0.000000 (a cost below one millionth of a dollar is rendered
\* as $0.000001).
C15_NeverRendersZero ==
  \A cm \in CostMetricsYielded :
    /\ cm.input_cost # "$0.000000"
    /\ cm.output_cost # "$0.000000"
    /\ cm.total_cost # "$0.000000"

\* the digit a character stands for
DigitValue(c) == CHOOSE d \in 0..9 : DigitOf(d) = c

IsDigits(s) == Len(s) >= 1 /\ \A k \in 1..Len(s) : Char(s, k) \in DigitChars

RECURSIVE NumberOf(_)
\* the number a string of digits denotes
NumberOf(s) ==
  IF Len(s) = 0 THEN 0
  ELSE NumberOf(SubSeq(s, 1, Len(s) - 1)) * 10 + DigitValue(Char(s, Len(s)))

\* "$", digits, ".", six digits
WellRendered(s) ==
  /\ Len(s) >= 9
  /\ Char(s, 1) = "$"
  /\ IsDigits(SubSeq(s, 2, Len(s) - 7))
  /\ Char(s, Len(s) - 6) = "."
  /\ IsDigits(SubSeq(s, Len(s) - 5, Len(s)))

\* the number of millionths a rendered amount shows
Millionths(s) ==
  NumberOf(SubSeq(s, 2, Len(s) - 7)) * 1000000 + NumberOf(SubSeq(s, Len(s) - 5, Len(s)))

\* m millionths is amount (in 10^-8 dollar) rounded half-up: the nearest
\* multiple of a millionth, the upper one at a tie
RoundsHalfUp(amount, m) == m * 100 - 50 <= amount /\ amount < m * 100 + 50

\* C16: a dollar amount is rendered as "$" followed by the value rounded to
\* exactly six decimal places, round-half-up: a seventh decimal digit of 5
\* or more rounds the sixth digit up (0.1234565 renders as $0.123457).
C16_RoundHalfUp ==
  pc = "formatted" =>
    /\ WellRendered(formatted)
    /\ RoundsHalfUp(value, Millionths(formatted))
    /\ value = 12345650 => formatted = "$0.123457"

\* 0.1234565, a tie, has been rendered
C16_Witness ==
  pc = "formatted" /\ value = 12345650 /\ formatted = "$0.123457"

\* C17: in the direct path the input and output costs of cost_metrics are
\* the token counts priced with the resolved model's per-1000-token pricing
\* (with or without the minimum of calculate_cost).
C17_DirectPathTokenPricing ==
  ~ Truthy(knowledge_base_id) =>
    \A cm \in CostMetricsYielded :
      LET floored == calculate_cost(current_model_arn, cm.input_tokens, cm.output_tokens)
      IN /\ cm.input_cost \in
              {format_cost(cm.input_tokens * model_config.pricing.input_cost),
               floored.input_cost}
         /\ cm.output_cost \in
              {format_cost(cm.output_tokens * model_config.pricing.output_cost),
               floored.output_cost}

\* ------------------------------------------------------------- overrides
GenerationFields ==
  {"temperature", "top_p", "top_k", "max_tokens", "stop_sequences", "guardrails"}

\* the overrides of request r have been applied to its resolved config
OverridesApplied(r) ==
  /\ requests[r].pc \in {"updated", "called"}
  /\ ~ Truthy(requests[r].knowledge_base_id)
  /\ requests[r].settings # PyNone

\* what the Resolver produced for the reference of request r
ResolvedFor(r) == get_config(ModelArnOr(requests[r].model_arn)).config

\* C18: when caller-supplied overrides are applied to a resolved config,
\* every generation field the caller left unset keeps the value the Resolver
\* produced for that model.
C18_OnlySetFieldsOverride ==
  \A r \in DOMAIN requests :
    OverridesApplied(r) =>
      \A f \in GenerationFields \ requests[r].settings.fields_set :
        Deref(requests[r].prepared)[f] = ResolvedFor(r)[f]

\* the request body of a request taken on its own
OwnRequestBody(q) ==
  IF Truthy(q.knowledge_base_id)
  THEN RetrieveParams(q.prompt, q.knowledge_base_id, ModelArnOr(q.model_arn))
  ELSE _prepare_request_body(q.prompt, q.settings, ModelArnOr(q.model_arn))

\* C19: under any interleaving of requests with different references and
\* overrides, the request body built for a request reflects only that
\* request's own reference and settings, and the process-wide default config
\* is never modified.
C19_NoSharedMutableState ==
  /\ default_object = DEFAULT_CONFIG
  /\ \A r \in DOMAIN requests :
       requests[r].pc = "called" =>
         requests[r].request_body = OwnRequestBody(requests[r])

\* two direct requests for the same unlisted model, one with overrides and
\* one without, both built
C19_Witness ==
  /\ DOMAIN requests = {1, 2}
  /\ requests[1].pc = "called" /\ requests[2].pc = "called"
  /\ requests[1].model_arn = "foo-bar" /\ requests[2].model_arn = "foo-bar"
  /\ requests[1].knowledge_base_id = None /\ requests[2].knowledge_base_id = None
  /\ requests[1].settings # PyNone
  /\ requests[1].settings.max_tokens = 100
  /\ requests[2].settings = PyNone
  /\ requests[1].request_body.max_tokens = 100
  /\ requests[2].request_body.max_tokens = 2048

\* --------------------------------------------------------- odd responses
\* the citation has a span the chunker can compare with offsets
Malformed(c) == ~ HasSpan(c)

\* C21: a malformed citation in the retrieval response (span missing or of
\* the wrong type, a page number that is not an integer, a reference
\* without metadata) never aborts the stream: once the retrieval call has
\* returned no error element is emitted, the fragments of a finished stream
\* make up the whole text, and a citation without a usable span contributes
\* no page number to the stream.
C21_MalformedNeverAborts ==
  response.kind = "kb" =>
    /\ ~ HasFailed
    /\ pc = "done" => ConcatChunks(out) = generated_text
    /\ \A p \in Range(metadata.page_numbers) :
         \E c \in AllCitations : ~ Malformed(c) /\ p \in PagesOf(c)

\* C22: for every provider, when the response body of the direct call lacks
\* the field the extractor reads the generated text from, the caller
\* receives an error element; the missing field never becomes an empty
\* generated text of a stream that ends without an error.
C22_MissingFieldIsError ==
  (response.kind = "llm" /\ "text_field" \notin DOMAIN response.body)
    => HasFailed

\* the families of the Nova sub-family in the family table
NovaFamilies == {"nova-pro", "nova-lite", "nova-micro"}

CountsAt(d, a, b) ==
  IF /\ a \in DOMAIN d /\ b \in DOMAIN d
     /\ d[a].t = "int" /\ d[b].t = "int"
  THEN {<<d[a].v, d[b].v>>}
  ELSE {}

\* the pairs of counts reported at the usage field paths known for the
\* provider of the resolved model
ReportedCounts ==
  IF ~ TextGenerated THEN {}
  ELSE
    LET body == response.body
        usage_field == Get(body, "usage", EmptyDict)
        metrics == Get(Get(body, "retrieveAndGenerateResponse", EmptyDict),
                       "metrics", EmptyDict)
        tokenUsage == Get(Get(body, "responseMetadata", EmptyDict),
                          "tokenUsage", EmptyDict)
        tokens == Get(Get(body, "meta", EmptyDict), "tokens", EmptyDict)
    IN CASE model_config.provider = ModelProvider.anthropic ->
              CountsAt(usage_field, "input_tokens", "output_tokens")
         [] model_config.provider = ModelProvider.amazon ->
              CountsAt(metrics, "promptTokenCount", "completionTokenCount")
              \cup CountsAt(usage_field, "inputTokens", "outputTokens")
              \cup CountsAt(usage_field, "prompt_tokens", "completion_tokens")
              \cup CountsAt(tokenUsage, "promptTokens", "completionTokens")
         [] model_config.provider = ModelProvider.cohere ->
              CountsAt(tokens, "prompt_tokens", "completion_tokens")
         [] model_config.provider = ModelProvider.mistral ->
              CountsAt(usage_field, "prompt_tokens", "completion_tokens")
         [] OTHER -> {}

\* C24: first success wins: when the response reports both the input and
\* the output token count at a usage field path known for the provider, the
\* cost_metrics of the final fragment carry those counts, each floored at
\* 1, and no estimate replaces them.
C24_FirstSuccessWins ==
  \A cm \in CostMetricsYielded :
    ReportedCounts # {} =>
      \E reported \in ReportedCounts :
        /\ cm.input_tokens = Max(1, reported[1])
        /\ cm.output_tokens = Max(1, reported[2])

\* the response body has none of the fields a usage report is read from
NoStructuredUsage ==
  /\ TextGenerated
  /\ DOMAIN response.body \cap
       {"usage", "retrieveAndGenerateResponse", "responseMetadata", "meta"} = {}

\* C25: when the response has no structured usage, the input_tokens reported
\* is max(1, floor(len(prompt) / 4)) and the output_tokens reported is
\* max(1, floor(len(generated text) / 4)), each independent of the other,
\* for every provider and on both paths.
C25_TextLengthHeuristic ==
  \A cm \in CostMetricsYielded :
    NoStructuredUsage =>
      /\ cm.input_tokens = Max(1, Len(prompt) \div 4)
      /\ cm.output_tokens = Max(1, Len(generated_text) \div 4)

\* ----------------------------------------------------- citation locations
\* the citation list at the top level of the retrieval response and the one
\* under the nested envelope (empty when the location has none)
TopLevelCitations ==
  IF "citations" \in DOMAIN response.body THEN response.body.citations ELSE <<>>

NestedCitations ==
  IF "retrieveAndGenerateResponse" \in DOMAIN response.body
  THEN Get(response.body.retrieveAndGenerateResponse, "citations", <<>>)
  ELSE <<>>

\* C26: citation data is looked for first at the top level of the response
\* and then under the nested envelope, and the citations of either location
\* are used for the page mapping: the nested ones whenever the top level
\* supplies no citation data.
C26_EitherLocation ==
  response.kind = "kb" =>
    LET used == IF TopLevelCitations # <<>> THEN TopLevelCitations
                ELSE NestedCitations
        mapped == MapCitations(used, 1, {}, <<>>)
    IN /\ citations_map = mapped.citations_map
       /\ metadata.page_numbers = SortedSeq(mapped.unique_page_numbers)

\* C27: every citation span kept in the citation map and used by the
\* chunker has start <= end and lies in the coordinate space of the
\* generated text returned to the caller: 0 <= start and end <= len(T).
C27_SpansInText ==
  \A k \in DOMAIN citations_map :
    LET span_start == citations_map[k].key[1]
        span_end == citations_map[k].key[2]
    IN /\ span_start.t = "int" /\ span_end.t = "int"
       /\ 0 <= span_start.v
       /\ span_start.v <= span_end.v
       /\ span_end.v <= Len(generated_text)

\* ------------------------------------------------------------------ totals
TotalIsSum(u) == u.total_tokens = u.input_tokens + u.output_tokens

\* C28: in every usage result (the dict get_token_usage returned, on any
\* return path, and the cost_metrics of a final fragment) total_tokens is
\* input_tokens + output_tokens.
C28_TotalTokensIsSum ==
  /\ TotalIsSum(usage)
  /\ \A cm \in CostMetricsYielded : TotalIsSum(cm)

\* ------------------------------------------------------------ page numbers
\* the final fragments yielded so far (those carrying the metadata bundle)
FinalFragments == {k \in DOMAIN out : "metadata" \in DOMAIN out[k]}

\* C29: in every successful stream, each page number in the
\* chunk_page_numbers of any fragment is in the metadata.page_numbers of the
\* final fragment, and metadata.page_numbers is sorted ascending without
\* duplicates.
C29_ChunkPagesInMetadata ==
  \A f \in FinalFragments :
    /\ \A k \in DOMAIN out :
         IsChunk(out[k]) =>
           ChunkPages(out[k]) \subseteq Range(out[f].metadata.page_numbers)
    /\ IsSortedDistinct(out[f].metadata.page_numbers)

\* a stream of several fragments has ended well; fragments before the final
\* one carry page numbers, two citations gave those pages, and the final
\* fragment lists more than one page
C29_Witness ==
  /\ Succeeded
  /\ Len(out) >= 2
  /\ FinalFragments = {Len(out)}
  /\ Len(citations_map) >= 2
  /\ \E k \in 1..(Len(out) - 1) : ChunkPages(out[k]) # {}
  /\ Len(out[Len(out)].metadata.page_numbers) >= 2

\* C30: in the cost_metrics of every final fragment the rendered total_cost
\* is the sum of the rendered input_cost and the rendered output_cost, as
\* six-decimal amounts, for every prompt length and generated-text length.
C30_RenderedTotalIsSum ==
  \A cm \in CostMetricsYielded :
    /\ WellRendered(cm.input_cost)
    /\ WellRendered(cm.output_cost)
    /\ WellRendered(cm.total_cost)
    /\ Millionths(cm.total_cost) =
         Millionths(cm.input_cost) + Millionths(cm.output_cost)

====
